---- MODULE Spec2Model ----
(***************************************************************************)
(* A model of tauri-plugin-mcp's control plane:                            *)
(*   - SocketManager (packages/tauri-mcp/src/managers/socket.ts): the      *)
(*     one-request-per-connection protocol client and its retry wrapper;   *)
(*   - TauriManager (managers/tauri.ts): the process supervisor with its   *)
(*     launch / stop / exit handlers and its output buffer.                *)
(* Every specification below shares the same variables; a specification    *)
(* that does not exercise one component leaves that component idle.        *)
(***************************************************************************)
EXTENDS Integers, Sequences, FiniteSets, TLC

VARIABLES
    \* ---- SocketManager.sendCommand: one call and its current connection
    cpc,        \* where the call is: idle, inflight, backoff, resolved, rejected
    attempt,    \* the loop counter of sendCommand (0 before the call)
    conn,       \* the net.Socket of the current attempt
    reqId,      \* the id written on the current connection (0: nothing written)
    written,    \* how many requests have been written to the channel
    peerBytes,  \* everything the peer has decided to send on this connection
    wire,       \* the bytes of peerBytes not delivered yet
    data,       \* sendCommandOnce's accumulated `data` string (decoded chars)
    timer,      \* the 30 s timer of the current attempt is armed
    backoffMs,  \* the delay of the sleep in progress
    hist,       \* how each attempt's promise was settled, in order
    outcome,    \* how the call's promise was settled
    \* ---- TauriManager: the fields of the supervisor
    platform,          \* process.platform: "unix" (socket file) or "win32"
    appConfig,         \* detectTauriApp() found an app (set by the constructor)
    timed,             \* the readiness clock is tracked (else time is abstract)
    conf,              \* what tauri.conf.json and package.json of the app hold
    hasBuildCache,     \* the debug binary of an earlier build exists
    process,           \* this.process: 0 is null, else the child it refers to
    status,            \* this.status
    detectedPipePath,  \* this.detectedPipePath is not null
    outputBuffer,      \* this.outputBuffer
    emitted,           \* how many output lines the children have produced
    lineBudget,        \* how many more output lines the children may produce
    errBudget,         \* how many of them may be stderr error lines
    lateBudget,        \* how many of them may follow the child's exit event
    \* ---- the child processes this manager has spawned
    spawned,           \* how many spawn() calls have been made
    cstate,            \* per child: none, alive, exited (event pending), reaped
    csig,              \* per child: the signals sent to it
    cstopl,            \* per child: a stop() has registered an exit listener
    \* ---- the rendezvous channel
    sockFile,          \* the socket file (named pipe) exists
    listener,          \* who accepts on it: 0 nobody, -1 an external app, or a child
    extApp,            \* an app launched by somebody else is running
    ponged,            \* history: the children whose app has answered a ping, among
                       \* those this.process or a launch() call still refers to
    \* ---- launch() calls in progress, per caller
    lpc, lres, lchild, lwait,
    lport,             \* port, portOverrideApplied, warnings and configOverride of the call
    vitePort,          \* this.vitePort
    lopt,              \* options.timeout_secs of the call
    ltimeout,          \* timeoutSecs of the call
    lelapsed,          \* Date.now() - startTime of its waitForReady(), in ms
    llogs,             \* the lines in the message of the error waitForReady() threw
    \* ---- stop() calls in progress, per caller
    spc, sproc, sres, stimer, sacts,
    calls,             \* how many launch() and stop() calls have been made
    \* ---- the get_logs tool: one call
    gpc,               \* where the call is: idle, fetching, returned
    gargs,             \* its arguments: filter, limit, clear
    glocal,            \* backendResult.entries
    gremote,           \* what getFrontendLogs() settled with
    gout,              \* what the call returned
    \* ---- a click or fill tool call
    tpc,               \* where the call is: idle, sending, returned
    targs,             \* its arguments: tool, ref, selector
    tres,              \* how it ended
    \* ---- request ids
    now,               \* Date.now(), in ms
    rq,                \* per requester: where its request is, and the id it wrote
    \* ---- two managers that resolve their channel
    pipes,             \* the named pipes that exist, in readdir order, by their app's root
    inst,              \* per manager: its root, its detectedPipePath, the path it got
    \* ---- a SipHasher at work
    sip,               \* the bytes to hash, how many are written, the hasher, the result
    \* ---- a reader of getLogs()
    snap,              \* the array getLogs() returned, and whether it is the live one
    \* ---- the server process (index.ts)
    shut,              \* isShuttingDown, where the process is, and what its handlers did
    \* ---- the webview (tauri-plugin-mcp-api)
    bridge             \* window.__MCP_BRIDGE__.initialized, the calls of initMcpBridge()
                       \* and what they have done since the bridge was last uninitialized

cmdVars == <<cpc, attempt, conn, reqId, written, peerBytes, wire, data, timer,
             backoffMs, hist, outcome>>

cfgVars == <<platform, appConfig, timed, conf>>

mgrVars == <<process, status, detectedPipePath>>

bufVars == <<outputBuffer, emitted, lineBudget, errBudget, lateBudget, snap>>

childVars == <<spawned, cstate, csig, cstopl>>

chanVars == <<sockFile, listener, extApp, ponged>>

waitVars == <<lopt, ltimeout, lelapsed, llogs>>

logVars == <<gpc, gargs, glocal, gremote, gout>>

toolVars == <<tpc, targs, tres>>

idVars == <<now, rq>>

hostVars == <<shut, bridge>>

pureVars == <<pipes, inst, sip, hostVars>>

auxVars == <<toolVars, idVars, pureVars>>

launchVars == <<lpc, lres, lchild, lwait, lport, vitePort>>

stopVars == <<spc, sproc, sres, stimer, sacts>>

supVars == <<cfgVars, mgrVars, bufVars, childVars, chanVars, launchVars, waitVars,
             stopVars, hasBuildCache, calls, logVars, auxVars>>

supVarsButAux == <<cfgVars, mgrVars, bufVars, childVars, chanVars, launchVars, waitVars,
                   stopVars, hasBuildCache, calls, logVars>>

vars == <<cmdVars, supVars>>

(***************************************************************************)
(* Bounds of the model.                                                    *)
(***************************************************************************)
MaxId == 2        \* request / response ids are drawn from 1..MaxId

MaxCalls == 2     \* launch() and stop() are called at most this many times in all

MaxLines == 102   \* output lines of a child while the output buffer is exercised

MaxErrLines == 1  \* how many of them are stderr error lines

MaxLateLines == 1 \* how many of them arrive after the child's exit event

MaxExplicitSecs == 2 \* an explicit timeout_secs is one of 0..MaxExplicitSecs

MaxFilter == 2    \* get_logs is given at most this many filter tokens

MaxLimit == 2     \* and a limit in 0..MaxLimit

MaxLogLines == 2  \* while the output buffer holds at most this many lines

MaxRef == 1       \* a reference handle is one of 0..MaxRef

MaxClock == 2     \* Date.now() takes the values 0..MaxClock

MaxDiagLines == 21 \* the child of a failing launch has written at most this many lines

\* every launch() spawns at most one child, and one child may have been
\* spawned before the calls that are counted
Children == 1..(MaxCalls + 1)

\* two callers whose launch() calls may overlap, and a caller of stop()
Callers == {"launchA", "launchB"}

Stoppers == {"stopA"}

Ids == 1..MaxId

Last(s) == s[Len(s)]

(***************************************************************************)
(* Program constants of SocketManager.                                     *)
(***************************************************************************)
MAX_RETRIES_Off == 3 + 1

MAX_RETRIES == 3

RETRY_DELAY_MS == 500

(***************************************************************************)
(* Error messages.  A message is a sequence of words, so that              *)
(* String.prototype.includes is containment of a contiguous run of words   *)
(* and toLowerCase acts word by word.                                      *)
(***************************************************************************)
MsgAbsent == <<"App", "not", "running", ".", "Use", "launch_app", "first", ".">>

MsgRefused == <<"App", "is", "starting", "up", ".", "Please", "wait", "and",
                "try", "again", ".">>

MsgClosed == <<"Connection", "closed", "without", "response">>

MsgTimeout == <<"Command", "timed", "out", "after", "30", "seconds">>

\* err.message of the errors Node raises on a socket, by errno code
NodeErrText(code) ==
    CASE code = "ECONNRESET" -> <<"read", "ECONNRESET">>
      [] code = "EPIPE"      -> <<"write", "EPIPE">>
      [] code = "EACCES"     -> <<"connect", "EACCES">>
      [] code = "ENOENT"     -> <<"connect", "ENOENT">>
      [] code = "ECONNREFUSED" -> <<"connect", "ECONNREFUSED">>

\* client.on('error'): the message of the Error the attempt is rejected with
ErrorHandlerMessage(code) ==
    IF code = "ENOENT" THEN MsgAbsent
    ELSE IF code = "ECONNREFUSED" THEN MsgRefused
    ELSE <<"Socket", "error", ":">> \o NodeErrText(code)

\* the messages the remote handler may put in a response's error object
ServerMessages ==
    << <<"Element", "not", "found">>,
       <<"Handler", "is", "starting", "up">>,
       <<"fetch", "failed", ":", "connect", "ECONNREFUSED">> >>

ToLowerCase(msg) ==
    [i \in 1..Len(msg) |->
        CASE msg[i] = "App" -> "app"
          [] msg[i] = "Use" -> "use"
          [] msg[i] = "Please" -> "please"
          [] msg[i] = "Connection" -> "connection"
          [] msg[i] = "Command" -> "command"
          [] msg[i] = "Socket" -> "socket"
          [] msg[i] = "Element" -> "element"
          [] msg[i] = "Handler" -> "handler"
          [] msg[i] = "ECONNRESET" -> "econnreset"
          [] msg[i] = "ECONNREFUSED" -> "econnrefused"
          [] msg[i] = "EPIPE" -> "epipe"
          [] msg[i] = "EACCES" -> "eacces"
          [] msg[i] = "ENOENT" -> "enoent"
          [] OTHER -> msg[i]]

Includes(msg, needle) ==
    \E i \in 1..(Len(msg) - Len(needle) + 1) :
        SubSeq(msg, i, i + Len(needle) - 1) = needle

IsRetryableError_Timeout(msg) ==
    LET message == ToLowerCase(msg) IN
       \/ Includes(message, <<"econnrefused">>)
       \/ Includes(message, <<"econnreset">>)
       \/ Includes(message, <<"epipe">>)
       \/ Includes(message, <<"connection", "closed">>)
       \/ Includes(message, <<"starting", "up">>)
       \/ Includes(message, <<"timed", "out">>)

IsRetryableError(msg) ==
    LET message == ToLowerCase(msg) IN
       \/ Includes(message, <<"econnrefused">>)
       \/ Includes(message, <<"econnreset">>)
       \/ Includes(message, <<"epipe">>)
       \/ Includes(message, <<"connection", "closed">>)
       \/ Includes(message, <<"starting", "up">>)

(***************************************************************************)
(* The wire.  A byte string is a sequence of byte tokens: the structural   *)
(* tokens of a response object, the bytes of string contents (an ASCII     *)
(* byte "a", and the two bytes C3 A9 of a two-byte UTF-8 character) and    *)
(* the newline that ends a frame.                                          *)
(*   { id<n> R Q ...bytes... Q }      {"id":n,"result":"..."}              *)
(*   { id<n> E M<k> }                 {"id":n,"error":{"message":<k>}}     *)
(***************************************************************************)
IdToks == <<"id1", "id2", "id3", "id4">>

MsgToks == <<"M1", "M2", "M3">>

IdTokSet == {IdToks[i] : i \in 1..Len(IdToks)}

MsgTokSet == {MsgToks[i] : i \in 1..Len(MsgToks)}

TokId(t) == CHOOSE i \in 1..Len(IdToks) : IdToks[i] = t

TokMsg(t) == ServerMessages[CHOOSE i \in 1..Len(MsgToks) : MsgToks[i] = t]

StrChars == {"a", "e_acute", "U+FFFD"}

\* Buffer.prototype.toString('utf8') of one chunk: an incomplete or stray
\* byte of a multi-byte sequence decodes to U+FFFD
RECURSIVE BufferToString(_)
BufferToString(b) ==
    IF b = <<>> THEN <<>>
    ELSE IF b[1] = "C3"
         THEN IF Len(b) >= 2 /\ b[2] = "A9"
              THEN <<"e_acute">> \o BufferToString(SubSeq(b, 3, Len(b)))
              ELSE <<"U+FFFD">> \o BufferToString(Tail(b))
    ELSE IF b[1] = "A9" THEN <<"U+FFFD">> \o BufferToString(Tail(b))
    ELSE <<b[1]>> \o BufferToString(Tail(b))

RECURSIVE StripLeadingWs(_)
StripLeadingWs(s) ==
    IF s # <<>> /\ s[1] = "nl" THEN StripLeadingWs(Tail(s)) ELSE s

RECURSIVE StripTrailingWs(_)
StripTrailingWs(s) ==
    IF s # <<>> /\ s[Len(s)] = "nl"
    THEN StripTrailingWs(SubSeq(s, 1, Len(s) - 1)) ELSE s

IsJsonString(s) ==
    /\ Len(s) >= 2
    /\ s[1] = "Q"
    /\ s[Len(s)] = "Q"
    /\ \A i \in 2..(Len(s) - 1) : s[i] \in StrChars

ParseFailure == [ok |-> FALSE, id |-> 0, kind |-> "none", val |-> <<>>]

\* the members of an object: an optional id, then a result or an error
JsonMembers(b) ==
    LET hasId == b # <<>> /\ b[1] \in IdTokSet
        id    == IF hasId THEN TokId(b[1]) ELSE 0
        m     == IF hasId THEN Tail(b) ELSE b
    IN  IF m = <<>>
        THEN [ok |-> TRUE, id |-> id, kind |-> "undefined", val |-> <<>>]
        ELSE IF m[1] = "R" /\ IsJsonString(Tail(m))
        THEN [ok |-> TRUE, id |-> id, kind |-> "result",
              val |-> SubSeq(m, 3, Len(m) - 1)]
        ELSE IF Len(m) = 2 /\ m[1] = "E" /\ m[2] \in MsgTokSet
        THEN [ok |-> TRUE, id |-> id, kind |-> "error", val |-> TokMsg(m[2])]
        ELSE ParseFailure

\* JSON.parse(data), and what sendCommandOnce reads off the parsed value:
\* a value that is no object has neither .error nor .result
JsonParse(s) ==
    LET t == StripTrailingWs(StripLeadingWs(s)) IN
    IF IsJsonString(t)
    THEN [ok |-> TRUE, id |-> 0, kind |-> "undefined", val |-> <<>>]
    ELSE IF Len(t) >= 2 /\ t[1] = "{" /\ t[Len(t)] = "}"
    THEN JsonMembers(SubSeq(t, 2, Len(t) - 1))
    ELSE ParseFailure

(***************************************************************************)
(* What the peer may send on one connection.                               *)
(***************************************************************************)
ResultStrings == {<<"Q", "a", "Q">>, <<"Q", "C3", "A9", "Q">>}

ResponseTexts ==
    {<<"{", IdToks[i], "R">> \o s \o <<"}">> : i \in Ids, s \in ResultStrings}
    \cup {<<"{", IdToks[i], "E", MsgToks[m], "}">> :
              i \in Ids, m \in 1..Len(ServerMessages)}

MalformedTexts == {<<"{">>, <<"{", "id1", "R", "Q", "a">>, <<"}", "nl">>}

PeerWires ==
    ResponseTexts \cup {w \o <<"nl">> : w \in ResponseTexts} \cup MalformedTexts

ConnectErrnos == {"ENOENT", "ECONNREFUSED", "EACCES"}

StreamErrnos == {"ECONNRESET", "EPIPE"}

(***************************************************************************)
(* SocketManager.sendCommand and sendCommandOnce.                          *)
(*                                                                         *)
(* A handler that settles the attempt's promise is one step together with  *)
(* the continuation of sendCommand that the settlement wakes: no other     *)
(* callback runs between the two (the continuation is a microtask).        *)
(* Settling a promise that is already settled changes nothing, so a        *)
(* handler settles only while the call is "inflight".                      *)
(***************************************************************************)
CmdInit ==
    /\ cpc = "idle"
    /\ attempt = 0
    /\ conn = "none"
    /\ reqId = 0
    /\ written = 0
    /\ peerBytes = <<>>
    /\ wire = <<>>
    /\ data = <<>>
    /\ timer = FALSE
    /\ backoffMs = 0
    /\ hist = <<>>
    /\ outcome = [status |-> "pending", val |-> <<>>]

Settled(ok, cause, val, rid) ==
    [ok |-> ok, cause |-> cause, val |-> val,
     req |-> IF cause \in {"response", "server"} THEN reqId ELSE 0, resp |-> rid]

\* new Promise(...) of sendCommandOnce: createConnection, data = '', setTimeout
StartAttempt(n) ==
    /\ attempt' = n
    /\ cpc' = "inflight"
    /\ conn' = "connecting"
    /\ reqId' = 0
    /\ peerBytes' = <<>>
    /\ wire' = <<>>
    /\ data' = <<>>
    /\ timer' = TRUE
    /\ backoffMs' = 0

\* reject(...) of a pending attempt, then the catch block of sendCommand
RejectAttempt(msg, cause, rid) ==
    /\ hist' = Append(hist, Settled(FALSE, cause, msg, rid))
    /\ IF ~IsRetryableError(msg) \/ attempt = MAX_RETRIES
       THEN /\ cpc' = "rejected"
            /\ outcome' = [status |-> "rejected", val |-> msg]
            /\ backoffMs' = 0
       ELSE /\ cpc' = "backoff"
            /\ outcome' = outcome
            /\ backoffMs' = RETRY_DELAY_MS * attempt

\* resolve(response.result) of a pending attempt, then `return await ...`
ResolveAttempt(val, rid) ==
    /\ hist' = Append(hist, Settled(TRUE, "response", val, rid))
    /\ cpc' = "resolved"
    /\ outcome' = [status |-> "resolved", val |-> val]
    /\ backoffMs' = 0

\* sendCommand(method, params): the first pass of the loop
SendCommand ==
    /\ cpc = "idle"
    /\ StartAttempt(1)
    /\ UNCHANGED <<written, hist, outcome>>
    /\ UNCHANGED supVars

\* the connect callback: the request is built (id: Date.now()) and written
Connected ==
    /\ conn = "connecting"
    /\ \E id \in Ids : reqId' = id
    /\ conn' = "open"
    /\ written' = written + 1
    /\ UNCHANGED <<cpc, attempt, peerBytes, wire, data, timer, backoffMs, hist,
                   outcome>>
    /\ UNCHANGED supVars

\* client.on('error') before the connection is established
ConnectError ==
    /\ conn = "connecting"
    /\ conn' = "errored"
    /\ \E code \in ConnectErrnos :
          RejectAttempt(ErrorHandlerMessage(code), code, 0)
    /\ UNCHANGED <<attempt, reqId, written, peerBytes, wire, data, timer>>
    /\ UNCHANGED supVars

\* the peer decides what it sends on this connection (possibly never)
PeerSends ==
    /\ conn = "open"
    /\ peerBytes = <<>>
    /\ \E w \in PeerWires : peerBytes' = w /\ wire' = w
    /\ UNCHANGED <<cpc, attempt, conn, reqId, written, data, timer, backoffMs,
                   hist, outcome>>
    /\ UNCHANGED supVars

\* the body of client.on('data') once the chunk is appended
OnData(d) ==
    LET response == JsonParse(d) IN
    IF response.ok
    THEN /\ conn' = "ended"
         /\ IF cpc = "inflight"
            THEN IF response.kind = "error"
                 THEN RejectAttempt(response.val, "server", response.id)
                 ELSE ResolveAttempt(response.val, response.id)
            ELSE UNCHANGED <<cpc, hist, outcome, backoffMs>>
    ELSE UNCHANGED <<conn, cpc, hist, outcome, backoffMs>>

\* client.on('data', chunk): the next n bytes of the wire arrive as one chunk
DataEvent ==
    /\ conn \in {"open", "ended"}
    /\ \E n \in 1..Len(wire) :
          /\ data' = data \o BufferToString(SubSeq(wire, 1, n))
          /\ wire' = SubSeq(wire, n + 1, Len(wire))
          /\ OnData(data')
    /\ UNCHANGED <<attempt, reqId, written, peerBytes, timer>>
    /\ UNCHANGED supVars

\* the body of client.on('close')
OnClose ==
    IF data = <<>> /\ cpc = "inflight"
    THEN RejectAttempt(MsgClosed, "closed", 0)
    ELSE UNCHANGED <<cpc, hist, outcome, backoffMs>>

\* the peer closes the connection after everything it sent was delivered
PeerClose ==
    /\ conn \in {"open", "ended"}
    /\ wire = <<>>
    /\ conn' = "closed"
    /\ OnClose
    /\ UNCHANGED <<attempt, reqId, written, peerBytes, wire, data, timer>>
    /\ UNCHANGED supVars

\* client.on('error') on an established connection
StreamError ==
    /\ conn \in {"open", "ended"}
    /\ conn' = "errored"
    /\ wire' = <<>>
    /\ \E code \in StreamErrnos :
          IF cpc = "inflight"
          THEN RejectAttempt(ErrorHandlerMessage(code), code, 0)
          ELSE UNCHANGED <<cpc, hist, outcome, backoffMs>>
    /\ UNCHANGED <<attempt, reqId, written, peerBytes, data, timer>>
    /\ UNCHANGED supVars

\* 'close' follows 'error' and destroy()
CloseEvent ==
    /\ conn \in {"errored", "destroyed"}
    /\ conn' = "closed"
    /\ OnClose
    /\ UNCHANGED <<attempt, reqId, written, peerBytes, wire, data, timer>>
    /\ UNCHANGED supVars

\* a timer that destroys the connection and leaves the promise alone
CommandTimeout_DestroysOnly ==
    /\ timer
    /\ cpc # "backoff"
    /\ timer' = FALSE
    /\ conn' = IF conn = "closed" THEN "closed" ELSE "destroyed"
    /\ wire' = <<>>
    /\ UNCHANGED <<cpc, hist, outcome, backoffMs>>
    /\ UNCHANGED <<attempt, reqId, written, peerBytes, data>>
    /\ UNCHANGED supVars

\* the setTimeout callback of the current attempt
CommandTimeout ==
    /\ timer
    /\ cpc # "backoff"
    /\ timer' = FALSE
    /\ conn' = IF conn = "closed" THEN "closed" ELSE "destroyed"
    /\ wire' = <<>>
    /\ IF cpc = "inflight"
       THEN RejectAttempt(MsgTimeout, "timeout", 0)
       ELSE UNCHANGED <<cpc, hist, outcome, backoffMs>>
    /\ UNCHANGED <<attempt, reqId, written, peerBytes, data>>
    /\ UNCHANGED supVars

\* the sleep of the catch block ends: the next pass of the loop
BackoffElapsed ==
    /\ cpc = "backoff"
    /\ StartAttempt(attempt + 1)
    /\ UNCHANGED <<written, hist, outcome>>
    /\ UNCHANGED supVars

CmdNext ==
    \/ SendCommand
    \/ Connected
    \/ ConnectError
    \/ PeerSends
    \/ DataEvent
    \/ PeerClose
    \/ StreamError
    \/ CloseEvent
    \/ CommandTimeout
    \/ BackoffElapsed

(***************************************************************************)
(* TauriManager: the process supervisor.                                   *)
(***************************************************************************)
OUTPUT_CAP == 100

ExitLine == [src |-> "exit", text |-> "exit", n |-> 0]

(***************************************************************************)
(* The log aggregator: parseBackendLogs / getUnifiedLogs of TauriManager   *)
(* and the get_logs tool.  A line of the output buffer is known by the     *)
(* kind of its text; a log entry is its category, level and timestamp.     *)
(***************************************************************************)
\* Date.now() when the buffer is parsed; remote entries carry their own time
NowTs == 2

\* parseBackendLogs: the entry a line yields, if any
ParseLine(line) ==
    CASE line.text = "rust-error" ->
            <<[category |-> "build-backend", level |-> "error", timestamp |-> NowTs]>>
      [] line.text = "vite-error" ->
            <<[category |-> "build-frontend", level |-> "error", timestamp |-> NowTs]>>
      [] line.text = "warning" ->
            <<[category |-> "build-backend", level |-> "warning", timestamp |-> NowTs]>>
      [] line.text = "error" ->
            <<[category |-> "runtime-backend", level |-> "error", timestamp |-> NowTs]>>
      [] OTHER -> <<>>

RECURSIVE ParseBackendLogs(_)
ParseBackendLogs(rawLogs) ==
    IF rawLogs = <<>> THEN <<>>
    ELSE ParseLine(Head(rawLogs)) \o ParseBackendLogs(Tail(rawLogs))

\* Array.prototype.slice(k) for an integer k
Slice(s, k) ==
    LET len == Len(s)
        start == IF k < 0 THEN (IF len + k > 0 THEN len + k ELSE 0)
                 ELSE (IF k < len THEN k ELSE len)
    IN  SubSeq(s, start + 1, len)

\* getUnifiedLogs({ filter: 'all', limit: 1000, clear }).entries
UNIFIED_LIMIT == 1000

UnifiedEntries(buf) == Slice(ParseBackendLogs(buf), 0 - UNIFIED_LIMIT)

\* the tokens of get_logs' filter
SourceTokens ==
    {"build", "build-frontend", "build-backend", "runtime", "runtime-frontend",
     "runtime-backend", "runtime-frontend-network"}

LevelTokens == {"error", "warning", "info"}

\* category.startsWith(prefix) for the prefixes 'build-' and 'runtime-'
StartsWith(category, prefix) ==
    CASE prefix = "build-" -> category \in {"build-frontend", "build-backend"}
      [] prefix = "runtime-" ->
            category \in {"runtime-frontend", "runtime-backend",
                          "runtime-frontend-network"}

MatchesFilters_AnyKind(entry, filters) ==
    LET sourceFilters == {f \in filters : f \notin LevelTokens}
        levelFilters == {f \in filters : f \in LevelTokens}
    IN  \/ filters = {}
        \/ "build" \in sourceFilters /\ StartsWith(entry.category, "build-")
        \/ "runtime" \in sourceFilters /\ StartsWith(entry.category, "runtime-")
        \/ entry.category \in sourceFilters
        \/ entry.level \in levelFilters

\* matchesFilters(entry)
MatchesFilters(entry, filters) ==
    LET sourceFilters == {f \in filters : f \notin LevelTokens}
        levelFilters == {f \in filters : f \in LevelTokens}
        sourceMatch ==
            \/ sourceFilters = {}
            \/ "build" \in sourceFilters /\ StartsWith(entry.category, "build-")
            \/ "build-frontend" \in sourceFilters /\ entry.category = "build-frontend"
            \/ "build-backend" \in sourceFilters /\ entry.category = "build-backend"
            \/ "runtime" \in sourceFilters /\ StartsWith(entry.category, "runtime-")
            \/ "runtime-frontend" \in sourceFilters
                  /\ entry.category = "runtime-frontend"
            \/ "runtime-backend" \in sourceFilters /\ entry.category = "runtime-backend"
            \/ "runtime-frontend-network" \in sourceFilters
                  /\ entry.category = "runtime-frontend-network"
        levelMatch == levelFilters = {} \/ entry.level \in levelFilters
    IN  IF filters = {} THEN TRUE ELSE sourceMatch /\ levelMatch

\* Array.prototype.sort((a, b) => a.timestamp - b.timestamp): a stable sort
RECURSIVE InsertByTimestamp(_, _)
InsertByTimestamp(sorted, e) ==
    IF sorted = <<>> THEN <<e>>
    ELSE IF Last(sorted).timestamp <= e.timestamp THEN Append(sorted, e)
    ELSE Append(InsertByTimestamp(SubSeq(sorted, 1, Len(sorted) - 1), e),
                Last(sorted))

RECURSIVE SortByTimestamp(_)
SortByTimestamp(s) ==
    IF s = <<>> THEN <<>>
    ELSE InsertByTimestamp(SortByTimestamp(SubSeq(s, 1, Len(s) - 1)), Last(s))

HasLevel(s, level) == \E i \in 1..Len(s) : s[i].level = level

CountLevel(s, level) == Cardinality({i \in 1..Len(s) : s[i].level = level})

\* frontendLogs is null when getFrontendLogs() rejected
FrontendNull == [ok |-> FALSE, consoleLogs |-> <<>>, buildLogs |-> <<>>,
                 networkLogs |-> <<>>, connected |-> FALSE]

\* buildHealth.frontend
FrontendHealth_NullHealthy(frontendLogs) ==
    IF HasLevel(frontendLogs.buildLogs, "error") THEN "error" ELSE "healthy"

FrontendHealth(frontendLogs) ==
    IF frontendLogs.ok /\ HasLevel(frontendLogs.buildLogs, "error") THEN "error"
    ELSE IF frontendLogs.ok THEN "healthy"
    ELSE "unknown"

\* buildHealth.backend
BackendHealth(entries) ==
    IF \E i \in 1..Len(entries) :
          entries[i].level = "error" /\ StartsWith(entries[i].category, "build-")
    THEN "error" ELSE "healthy"

\* the body of get_logs from the merge on
GetLogsResult(filters, limit, backendEntries, frontendLogs) ==
    LET merged == backendEntries \o frontendLogs.consoleLogs
                      \o frontendLogs.buildLogs \o frontendLogs.networkLogs
        filtered == SelectSeq(merged, LAMBDA e : MatchesFilters(e, filters))
        allEntries == Slice(SortByTimestamp(filtered), 0 - limit)
    IN  [threw |-> FALSE,
         filtered |-> filtered,
         entries |-> allEntries,
         total |-> Len(allEntries),
         errors |-> CountLevel(allEntries, "error"),
         warnings |-> CountLevel(allEntries, "warning"),
         frontend |-> FrontendHealth(frontendLogs),
         backend |-> BackendHealth(backendEntries),
         hmrConnected |-> frontendLogs.connected]

NoResult == [threw |-> FALSE, filtered |-> <<>>, entries |-> <<>>, total |-> 0,
             errors |-> 0, warnings |-> 0, frontend |-> "unknown",
             backend |-> "healthy", hmrConnected |-> FALSE]

NoArgs == [filter |-> {}, limit |-> 0, clear |-> FALSE]

\* no get_logs call is in progress
LogsIdle ==
    /\ gpc = "idle"
    /\ gargs = NoArgs
    /\ glocal = <<>>
    /\ gremote = FrontendNull
    /\ gout = NoResult

\* the filters, limits and frontend answers get_logs is exercised with
FilterSets == {f \in SUBSET (SourceTokens \cup LevelTokens) : Cardinality(f) <= MaxFilter}

ConsoleChoices ==
    {<<>>,
     <<[category |-> "runtime-frontend", level |-> "info", timestamp |-> 1]>>,
     <<[category |-> "runtime-frontend", level |-> "error", timestamp |-> 3]>>}

BuildChoices ==
    {<<>>, <<[category |-> "build-frontend", level |-> "error", timestamp |-> 1]>>}

NetworkChoices ==
    {<<>>,
     <<[category |-> "runtime-frontend-network", level |-> "debug", timestamp |-> 3]>>}

\* no reader holds an array returned by getLogs()
NoSnap == [held |-> FALSE, same |-> FALSE, mutated |-> FALSE, lines |-> <<>>]

\* `this.outputBuffer = []`: the field names a new array, so an array a reader
\* holds is no longer the live one
Reassigned(s) == [s EXCEPT !.same = FALSE]

\* this.outputBuffer.push(...) / shift(): the live array changes in place, and
\* a reader holding that very array sees the change
MutatedInPlace(s, buf) == IF s.held /\ s.same THEN [s EXCEPT !.lines = buf] ELSE s

\* get_logs(args) up to `await socketManager.getFrontendLogs(...)`
GetLogsCall ==
    /\ gpc = "idle"
    /\ \E f \in FilterSets, n \in 0..MaxLimit, c \in BOOLEAN :
          /\ gargs' = [filter |-> f, limit |-> n, clear |-> c]
          /\ outputBuffer' = IF c THEN <<>> ELSE outputBuffer
          /\ snap' = IF c THEN Reassigned(snap) ELSE snap
    /\ glocal' = UnifiedEntries(outputBuffer)
    /\ gpc' = "fetching"
    /\ UNCHANGED <<gremote, gout, emitted, lineBudget, errBudget, lateBudget,
                   cfgVars, mgrVars, childVars, chanVars, launchVars, waitVars,
                   stopVars, cmdVars, auxVars, hasBuildCache, calls>>

\* getFrontendLogs() has resolved: the rest of get_logs
FetchResolves ==
    /\ gpc = "fetching"
    /\ \E c \in ConsoleChoices, b \in BuildChoices, n \in NetworkChoices :
          gremote' = [ok |-> TRUE, consoleLogs |-> c, buildLogs |-> b,
                      networkLogs |-> n, connected |-> TRUE]
    /\ gout' = GetLogsResult(gargs.filter, gargs.limit, glocal, gremote')
    /\ gpc' = "returned"
    /\ UNCHANGED <<gargs, glocal, cfgVars, mgrVars, bufVars, childVars, chanVars,
                   launchVars, waitVars, stopVars, cmdVars, auxVars, hasBuildCache, calls>>

\* getFrontendLogs() has rejected: the empty catch, then the rest of get_logs
FetchFails ==
    /\ gpc = "fetching"
    /\ gremote' = FrontendNull
    /\ gout' = GetLogsResult(gargs.filter, gargs.limit, glocal, gremote')
    /\ gpc' = "returned"
    /\ UNCHANGED <<gargs, glocal, cfgVars, mgrVars, bufVars, childVars, chanVars,
                   launchVars, waitVars, stopVars, cmdVars, auxVars, hasBuildCache, calls>>

(***************************************************************************)
(* The click and fill tools: the handler's local test of its arguments,    *)
(* then SocketManager.click / fill, which hand the arguments to            *)
(* sendCommand.                                                            *)
(***************************************************************************)
\* args.ref: absent, or a number
RefChoices == {[given |-> FALSE, n |-> 0]} \cup {[given |-> TRUE, n |-> n] : n \in 0..MaxRef}

\* args.selector: absent, or a string
SelectorChoices ==
    {[given |-> FALSE, text |-> ""], [given |-> TRUE, text |-> ""],
     [given |-> TRUE, text |-> "#a"]}

MissingTarget_NeverRejects(r, sel) == FALSE

\* !args.ref && !args.selector: undefined, 0 and '' are falsy
MissingTarget(r, sel) ==
    /\ ~r.given \/ r.n = 0
    /\ ~sel.given \/ sel.text = ""

NoToolArgs == [tool |-> "none", ref |-> [given |-> FALSE, n |-> 0],
               selector |-> [given |-> FALSE, text |-> ""]]

\* no click or fill call is in progress
ToolIdle ==
    /\ tpc = "idle"
    /\ targs = NoToolArgs
    /\ tres = "none"

(***************************************************************************)
(* Request ids.  sendCommandOnce and verifyAppReady both build their       *)
(* request in the connect callback with id: Date.now().  The requesters    *)
(* are two concurrent command calls and a readiness ping.                  *)
(***************************************************************************)
Requesters == {"commandA", "commandB", "ping"}

\* no request is being made
IdsIdle ==
    /\ now = 0
    /\ rq = [r \in Requesters |-> [pc |-> "idle", id |-> 0]]

\* a millisecond passes
Tick ==
    /\ now < MaxClock
    /\ now' = now + 1
    /\ UNCHANGED <<rq, toolVars, pureVars, supVarsButAux, cmdVars>>

\* net.createConnection(socketPath, ...)
RequestStarts(r) ==
    /\ rq[r].pc = "idle"
    /\ rq' = [rq EXCEPT ![r] = [pc |-> "connecting", id |-> 0]]
    /\ UNCHANGED <<now, toolVars, pureVars, supVarsButAux, cmdVars>>

\* the connect callback: the request is built and written
RequestWritten(r) ==
    /\ rq[r].pc = "connecting"
    /\ rq' = [rq EXCEPT ![r] = [pc |-> "inflight", id |-> now]]
    /\ UNCHANGED <<now, toolVars, pureVars, supVarsButAux, cmdVars>>

\* the response, an error, the close or the timeout settles the request
RequestSettles(r) ==
    /\ rq[r].pc \in {"connecting", "inflight"}
    /\ rq' = [rq EXCEPT ![r] = [pc |-> "idle", id |-> 0]]
    /\ UNCHANGED <<now, toolVars, pureVars, supVarsButAux, cmdVars>>

IdsNext ==
    \/ Tick
    \/ \E r \in Requesters : RequestStarts(r)
    \/ \E r \in Requesters : RequestWritten(r)
    \/ \E r \in Requesters : RequestSettles(r)

\* nothing outside the supervisor and its one client is in progress
(***************************************************************************)
(* SipHasher and hashBytesLikeRust.  A 64-bit word is the tuple of its     *)
(* four 16-bit limbs, least significant first; a byte is a number in       *)
(* 0..255.                                                                 *)
(***************************************************************************)

\* 0x736f6d6570736575, 0x646f72616e646f6d, 0x6c7967656e657261,
\* 0x7465646279746573
SipConst ==
    << <<25973, 28787, 28005, 29551>>, <<28525, 28260, 29281, 25711>>,
       <<29281, 28261, 26469, 27769>>, <<25971, 31092, 25698, 29797>> >>

RECURSIVE Xor16(_, _)
Xor16(a, b) ==
    IF a = 0 THEN b
    ELSE IF b = 0 THEN a
    ELSE ((a + b) % 2) + 2 * Xor16(a \div 2, b \div 2)

\* x ^ y.  Here and below an operator first binds its arguments to their
\* values (a \in {x}), so that each is computed once.
XorW(x, y) ==
    CHOOSE r \in {<<Xor16(a[1], b[1]), Xor16(a[2], b[2]),
                    Xor16(a[3], b[3]), Xor16(a[4], b[4])>> : a \in {x}, b \in {y}} : TRUE

\* (x + y) & mask64
AddW(x, y) ==
    CHOOSE r \in {LET s1 == a[1] + b[1]
                      s2 == a[2] + b[2] + s1 \div 65536
                      s3 == a[3] + b[3] + s2 \div 65536
                      s4 == a[4] + b[4] + s3 \div 65536
                  IN  <<s1 % 65536, s2 % 65536, s3 % 65536, s4 % 65536>>
                  : a \in {x}, b \in {y}} : TRUE

\* rotl(x, b), 0 < b < 64
Rotl(x, b) ==
    CHOOSE r \in {LET limb(i) == ((a[((i + 3 - (b \div 16)) % 4) + 1] * 2^(b % 16)) % 65536)
                                 + (a[((i + 2 - (b \div 16)) % 4) + 1] \div 2^(16 - (b % 16)))
                  IN  <<limb(1), limb(2), limb(3), limb(4)>>
                  : a \in {x}} : TRUE

\* sipRound() on <<v0, v1, v2, v3>>
SipRound(v) ==
    CHOOSE r \in {LET a0 == AddW(w[1], w[2])
                      a1 == XorW(Rotl(w[2], 13), a0)
                      a2 == AddW(w[3], w[4])
                      a3 == XorW(Rotl(w[4], 16), a2)
                      b0 == AddW(Rotl(a0, 32), a3)
                      b3 == XorW(Rotl(a3, 21), b0)
                      b2 == AddW(a2, a1)
                      b1 == XorW(Rotl(a1, 17), b2)
                  IN  <<b0, b1, Rotl(b2, 32), b3>>
                  : w \in {v}} : TRUE

\* one block of eight bytes, little-endian: v3 ^= m; sipRound(); v0 ^= m
Absorb(v, block) ==
    CHOOSE r \in {<<XorW(w[1], m), w[2], w[3], w[4]>> :
                  m \in {<<b[1] + 256 * b[2], b[3] + 256 * b[4],
                           b[5] + 256 * b[6], b[7] + 256 * b[8]>> : b \in {block}},
                  w \in {SipRound(<<u[1], u[2], u[3],
                                    XorW(u[4], <<b[1] + 256 * b[2], b[3] + 256 * b[4],
                                                 b[5] + 256 * b[6], b[7] + 256 * b[8]>>)>>)
                         : u \in {v}, b \in {block}}} : TRUE

\* `while (i + 8 <= data.length)`: the complete blocks of the bytes
RECURSIVE AbsorbBlocks(_, _)
AbsorbBlocks(v, bytes) ==
    CHOOSE r \in {IF Len(b) < 8 THEN w
                  ELSE AbsorbBlocks(Absorb(w, SubSeq(b, 1, 8)), SubSeq(b, 9, Len(b)))
                  : w \in {v}, b \in {bytes}} : TRUE

\* finish(): the last block holds the tail and, in its top byte, the length
Finish(v, tail, length) ==
    CHOOSE r \in {XorW(XorW(y[1], y[2]), XorW(y[3], y[4])) :
                  y \in {SipRound(SipRound(SipRound(
                             <<w[1], w[2], XorW(w[3], <<255, 0, 0, 0>>), w[4]>>)))
                         : w \in {Absorb(v, [i \in 1..8 |->
                                               IF i <= Len(tail) THEN tail[i]
                                               ELSE IF i = 8 THEN length % 256 ELSE 0])}}}
           : TRUE

\* new SipHasher()
NewHasher ==
    LET k0 == SipConst[1]
        k1 == SipConst[2]
    IN  [v |-> <<XorW(k0, SipConst[1]), XorW(k1, SipConst[2]),
                 XorW(k0, SipConst[3]), XorW(k1, SipConst[4])>>,
         tail |-> <<>>,
         length |-> 0]

\* write(data)
Write(h, bytes) ==
    CHOOSE r \in {LET fill == IF 8 - Len(g.tail) < Len(b) THEN 8 - Len(g.tail) ELSE Len(b)
                      tail == g.tail \o SubSeq(b, 1, fill)
                      rest == SubSeq(b, fill + 1, Len(b))
                  IN  [v |-> AbsorbBlocks(IF Len(tail) = 8 THEN Absorb(g.v, tail) ELSE g.v,
                                          rest),
                       tail |-> (IF Len(tail) = 8 THEN <<>> ELSE tail)
                                \o SubSeq(rest, 8 * (Len(rest) \div 8) + 1, Len(rest)),
                       length |-> g.length + Len(b)]
                  : g \in {h}, b \in {bytes}} : TRUE

\* buf.writeBigUInt64LE(BigInt(value)) of writeUsize(value), value < 65536
UsizeBytes(value) == <<value % 256, value \div 256, 0, 0, 0, 0, 0, 0>>

\* hashBytesLikeRust(data)
HashBytesLikeRust(bytes) ==
    CHOOSE r \in {Finish(h.v, h.tail, h.length)
                  : h \in {Write(Write(NewHasher, UsizeBytes(Len(bytes))), bytes)}} : TRUE

\* SipHash-1-3 of a whole message under the key (k0, k1), in one pass
SipHash13(k0, k1, msg) ==
    Finish(AbsorbBlocks(<<XorW(k0, SipConst[1]), XorW(k1, SipConst[2]),
                          XorW(k0, SipConst[3]), XorW(k1, SipConst[4])>>, msg),
           SubSeq(msg, 8 * (Len(msg) \div 8) + 1, Len(msg)),
           Len(msg))

\* no hasher is at work
HashIdle == sip = [pc |-> "idle", data |-> <<>>, pos |-> 0, h |-> NewHasher, out |-> <<>>]

Instances == {"m1", "m2"}

\* no manager has been constructed and no named pipe exists
ChanIdle ==
    /\ pipes = <<>>
    /\ inst = [m \in Instances |->
                 [root |-> "", detected |-> "", path |-> <<>>, logged |-> "",
                  use |-> <<>>]]

\* index.ts after its top-level code has run: the server is being started
ShutIdle ==
    shut = [isShuttingDown |-> FALSE, pc |-> "serving", seen |-> {}, stops |-> 0,
            syncs |-> 0]

\* the callers of initMcpBridge() in the webview
Initializers == {"entry", "again"}

\* a page that has loaded the module and not called initMcpBridge() yet
BridgeIdle ==
    bridge = [initialized |-> FALSE, registers |-> 0, installs |-> 0,
              disposer |-> FALSE, calls |-> 0, reloads |-> 0,
              pc |-> [k \in Initializers |-> "idle"]]

AuxIdle == ToolIdle /\ IdsIdle /\ ChanIdle /\ HashIdle /\ ShutIdle /\ BridgeIdle

\* the click / fill handler up to its await: the throw, or sendCommand's
\* first pass
ToolCall ==
    /\ tpc = "idle"
    /\ cpc = "idle"
    /\ \E tool \in {"click", "fill"}, r \in RefChoices, sel \in SelectorChoices :
          /\ targs' = [tool |-> tool, ref |-> r, selector |-> sel]
          /\ IF MissingTarget(r, sel)
             THEN /\ tpc' = "returned"
                  /\ tres' = "threw_missing_target"
                  /\ UNCHANGED cmdVars
             ELSE /\ tpc' = "sending"
                  /\ tres' = "none"
                  /\ StartAttempt(1)
                  /\ UNCHANGED <<written, hist, outcome>>
    /\ UNCHANGED <<cfgVars, mgrVars, bufVars, childVars, chanVars, launchVars,
                   waitVars, stopVars, hasBuildCache, calls, logVars, idVars, pureVars>>

\* sendCommand has settled: SocketManager.click / fill and the handler finish
ToolReturns ==
    /\ tpc = "sending"
    /\ cpc \in {"resolved", "rejected"}
    /\ tpc' = "returned"
    /\ \E success \in BOOLEAN :
          tres' = IF cpc = "rejected" THEN "threw_command"
                  ELSE IF success THEN "done" ELSE "threw_failed"
    /\ UNCHANGED <<targs, cmdVars, cfgVars, mgrVars, bufVars, childVars, chanVars,
                   launchVars, waitVars, stopVars, hasBuildCache, calls, logVars, idVars, pureVars>>

\* a call rejected by the handler left nothing behind; the caller calls again
ToolAgain ==
    /\ tpc = "returned"
    /\ tres = "threw_missing_target"
    /\ tpc' = "idle"
    /\ targs' = NoToolArgs
    /\ tres' = "none"
    /\ UNCHANGED <<cmdVars, cfgVars, mgrVars, bufVars, childVars, chanVars,
                   launchVars, waitVars, stopVars, hasBuildCache, calls, logVars, idVars, pureVars>>

\* the tool call and the events of its first connection attempt (the retry
\* loop of sendCommand is followed in SpecCmd)
ToolNext ==
    \/ ToolCall
    \/ ToolReturns
    \/ ToolAgain
    \/ Connected
    \/ ConnectError
    \/ PeerSends
    \/ DataEvent
    \/ PeerClose
    \/ StreamError
    \/ CloseEvent
    \/ CommandTimeout

\* parseBackendLogs(buffer).some(e => e.level === 'error')
HasErrors(buf) == HasLevel(ParseBackendLogs(buf), "error")

(***************************************************************************)
(* Port allocation of launch(): what the app's tauri.conf.json and         *)
(* package.json hold, and what launch() makes of it.                       *)
(***************************************************************************)

\* command: build.beforeDevCommand as readTauriConfig() returns it ("" stands
\* for a command that is absent or empty and for a file that cannot be read);
\* pkg: what detectBundlerFromPackageJson() finds in package.json;
\* devUrlPort: the port in build.devUrl, 0 for none
TauriConfigs ==
    [command : {"", "vite", "webpack serve", "pnpm dev", "trunk serve"},
     pkg : {"vite", "webpack", "unknown"},
     devUrlPort : {0, 3000}]

\* the configuration of the supervisor's own specifications: with a recognized
\* bundler launch() awaits findAvailablePort() before it spawns, and every
\* interleaving of the launch without that await is one of these too
SupConfigs == {[command |-> "vite", pkg |-> "unknown", devUrlPort |-> 0]}

\* detectBundlerType(command)
DetectBundlerType(cf) ==
    IF cf.command \in {"vite"} THEN "vite"
    ELSE IF cf.command \in {"webpack serve"} THEN "webpack"
    ELSE IF cf.command \in {"pnpm dev"} THEN cf.pkg
    ELSE "unknown"

\* `this.detectExistingPort() ?? 1420`
StaticPort(cf) == IF cf.devUrlPort # 0 THEN cf.devUrlPort ELSE 1420

\* the ports findAvailablePort() may resolve with
FreePorts == {10000}

\* port of the result (0 until the call returns), portOverrideApplied, the
\* warning pushed, and whether configOverride is set
NoPort == [port |-> 0, applied |-> FALSE, warning |-> "", override |-> FALSE]

\* the locals of launch() after its port allocation for a bundler type
\* ("none": no beforeDevCommand)
Allocated(bundler) ==
    [port |-> 0,
     applied |-> bundler \in {"vite", "webpack"},
     warning |-> CASE bundler = "vite" -> ""
                   [] bundler = "webpack" -> "webpack"
                   [] bundler = "unknown" -> "unknown_bundler"
                   [] bundler = "none" -> "no_command",
     override |-> bundler \in {"vite", "webpack"}]

\* a LaunchOptions.timeout_secs: absent, or a number of seconds
NoTimeoutOption == [given |-> FALSE, secs |-> 0]

\* the supervisor after its constructor, on platform p, with the readiness
\* clock tracked or not (t); the children of a
\* supervisor that starts with lines = 0 stay silent; no command is in progress
MgrInit(p, lines, t, confs) ==
    /\ platform = p
    /\ conf \in confs
    /\ appConfig \in BOOLEAN
    /\ timed = t
    /\ hasBuildCache \in (IF t THEN BOOLEAN ELSE {FALSE})
    /\ process = 0
    /\ status = "not_running"
    /\ detectedPipePath = FALSE
    /\ outputBuffer = <<>>
    /\ emitted = 0
    /\ lineBudget = lines
    /\ errBudget = IF lines = 0 THEN 0 ELSE MaxErrLines
    /\ lateBudget = IF lines = 0 THEN 0 ELSE MaxLateLines
    /\ snap = NoSnap
    /\ spawned = 0
    /\ cstate = [c \in Children |-> "none"]
    /\ csig = [c \in Children |-> {}]
    /\ cstopl = [c \in Children |-> FALSE]
    /\ extApp \in BOOLEAN
    /\ sockFile \in BOOLEAN
    /\ extApp => sockFile
    /\ listener = IF extApp THEN -1 ELSE 0
    /\ ponged = {}
    /\ lpc = [l \in Callers |-> "idle"]
    /\ lres = [l \in Callers |-> "none"]
    /\ lchild = [l \in Callers |-> 0]
    /\ lwait = [l \in Callers |-> TRUE]
    /\ lport = [l \in Callers |-> NoPort]
    /\ vitePort = 0
    /\ lopt = [l \in Callers |-> NoTimeoutOption]
    /\ ltimeout = [l \in Callers |-> 0]
    /\ lelapsed = [l \in Callers |-> 0]
    /\ llogs = [l \in Callers |-> <<>>]
    /\ spc = [s \in Stoppers |-> "idle"]
    /\ sproc = [s \in Stoppers |-> 0]
    /\ sres = [s \in Stoppers |-> "none"]
    /\ stimer = [s \in Stoppers |-> FALSE]
    /\ sacts = [s \in Stoppers |-> {}]
    /\ calls = 0
    /\ LogsIdle
    /\ AuxIdle
    /\ CmdInit

SupInit == MgrInit("unix", 0, FALSE, SupConfigs)

Win32Init == MgrInit("win32", 0, FALSE, SupConfigs)

\* a supervisor nobody calls (the protocol client is exercised on its own)
SupIdle ==
    /\ SupInit
    /\ appConfig
    /\ ~sockFile

\* somebody answers a connection to the channel
ListenerAlive ==
    \/ listener = -1 /\ extApp
    \/ listener \in Children /\ cstate[listener] = "alive"

\* verifyAppReady() can resolve true: the channel exists and its owner answers
CanPong == sockFile /\ ListenerAlive

\* isSocketReady(), and the path lookup that starts isSocketReadyAsync()
SocketSeen == sockFile

\* whether fs.unlinkSync(socketPath) throws (EACCES, EPERM, ...); it is called
\* on a socket-file platform when the file exists
UnlinkFails(exists) == IF platform = "unix" /\ exists THEN BOOLEAN ELSE {FALSE}

(***************************************************************************)
(* The children and the channel (the environment of the supervisor).       *)
(***************************************************************************)
\* the app of child c creates the channel and accepts on it
ChildListens(c) ==
    /\ cstate[c] = "alive"
    /\ ponged' = ponged
    /\ ~(sockFile /\ listener = c)
    /\ sockFile' = TRUE
    /\ listener' = c
    /\ UNCHANGED <<extApp, cfgVars, mgrVars, bufVars, childVars, launchVars, waitVars,
                   stopVars, cmdVars, logVars, auxVars, hasBuildCache, calls>>

\* child c terminates (by itself, or because of a signal it was sent)
ChildExits(c) ==
    /\ cstate[c] = "alive"
    /\ cstate' = [cstate EXCEPT ![c] = "exited"]
    /\ UNCHANGED <<spawned, csig, cstopl, cfgVars, mgrVars, bufVars, chanVars,
                   launchVars, waitVars, stopVars, cmdVars, logVars, auxVars, hasBuildCache, calls>>

\* outputBuffer.push(line); if (length > 100) shift()
PushLine_ShiftNewest(buf, line) ==
    IF Len(buf) + 1 > OUTPUT_CAP THEN buf ELSE Append(buf, line)

PushLine(buf, line) ==
    LET b == Append(buf, line) IN
    IF Len(b) > OUTPUT_CAP THEN Tail(b) ELSE b

\* proc.stdout.on('data')
StdoutData(c) ==
    /\ cstate[c] # "none"
    /\ lineBudget > 0
    /\ cstate[c] = "reaped" => lateBudget > 0
    /\ lineBudget' = lineBudget - 1
    /\ lateBudget' = IF cstate[c] = "reaped" THEN lateBudget - 1 ELSE lateBudget
    /\ emitted' = emitted + 1
    /\ outputBuffer' = PushLine(outputBuffer,
           [src |-> "stdout", text |-> "info", n |-> emitted + 1, from |-> c])
    /\ snap' = MutatedInPlace(snap, outputBuffer')
    /\ UNCHANGED <<errBudget, cfgVars, mgrVars, childVars, chanVars, launchVars, waitVars,
                   stopVars, cmdVars, logVars, auxVars, hasBuildCache, calls>>

\* proc.stderr.on('data')
StderrData(c) ==
    /\ cstate[c] # "none"
    /\ lineBudget > 0
    /\ errBudget > 0
    /\ cstate[c] = "reaped" => lateBudget > 0
    /\ lineBudget' = lineBudget - 1
    /\ lateBudget' = IF cstate[c] = "reaped" THEN lateBudget - 1 ELSE lateBudget
    /\ errBudget' = errBudget - 1
    /\ emitted' = emitted + 1
    /\ outputBuffer' = PushLine(outputBuffer,
           [src |-> "stderr", text |-> "error", n |-> emitted + 1, from |-> c])
    /\ snap' = MutatedInPlace(snap, outputBuffer')
    /\ UNCHANGED <<cfgVars, mgrVars, childVars, chanVars, launchVars, waitVars, stopVars,
                   cmdVars, logVars, auxVars, hasBuildCache, calls>>

\* proc.on('exit') of child c: the handler launch() registered, then the
\* handlers stop() calls registered on the same child
ExitEvent(c) ==
    /\ cstate[c] = "exited"
    /\ cstate' = [cstate EXCEPT ![c] = "reaped"]
    /\ outputBuffer' = Append(outputBuffer, ExitLine)
    /\ snap' = MutatedInPlace(snap, outputBuffer')
    /\ process' = 0
    /\ status' = "not_running"
    /\ detectedPipePath' = IF cstopl[c] THEN FALSE ELSE detectedPipePath
    /\ spc' = [s \in Stoppers |->
                 IF spc[s] = "waiting" /\ sproc[s] = c THEN "returned" ELSE spc[s]]
    /\ sres' = [s \in Stoppers |->
                 IF spc[s] = "waiting" /\ sproc[s] = c THEN "App stopped"
                 ELSE sres[s]]
    /\ UNCHANGED <<emitted, lineBudget, errBudget, lateBudget, spawned, csig, cstopl, sproc,
                   stimer, sacts, cfgVars, sockFile, listener, extApp, launchVars, waitVars,
                   cmdVars, logVars, auxVars, hasBuildCache, calls>>
    /\ ponged' = IF \E l \in Callers : lchild[l] = c THEN ponged ELSE ponged \ {c}

\* what getStatus() stores in this.status and returns
StatusNow ==
    IF process # 0
    THEN IF detectedPipePath \/ (platform = "unix" /\ SocketSeen)
         THEN "running" ELSE "starting"
    ELSE "not_running"

\* getStatus()
GetStatus ==
    /\ status' = StatusNow
    /\ UNCHANGED <<process, detectedPipePath, cfgVars, bufVars, childVars,
                   chanVars, launchVars, waitVars, stopVars, cmdVars, logVars, auxVars, hasBuildCache, calls>>

(***************************************************************************)
(* launch().  The call runs up to its next await in one step; each await   *)
(* is a point where other callbacks and other calls run.                   *)
(***************************************************************************)
\* one pass of the loop of waitForReady(), up to its await (or its throw)
WaitForReadyPass(proc, sock, det, timedOut) ==
    IF timedOut
    THEN [pc |-> "returned", res |-> "build_error_timeout", detected |-> det]
    ELSE IF proc = 0
    THEN [pc |-> "returned", res |-> "build_error_exited", detected |-> det]
    ELSE IF platform = "unix"
    THEN [pc |-> IF sock THEN "pinging" ELSE "sleeping", res |-> "none",
          detected |-> det]
    ELSE [pc |-> IF sock THEN "probing" ELSE "sleeping", res |-> "none",
          detected |-> det \/ sock]

\* getRecentLogs(): the last 20 lines of the buffer, or a placeholder
RECENT_LINES == 20

NoOutputLine == [src |-> "none", text |-> "(no output captured)", n |-> 0]

GetRecentLogs(buf) ==
    IF Len(buf) = 0 THEN <<NoOutputLine>> ELSE Slice(buf, 0 - RECENT_LINES)

\* the defaults of timeoutSecs, the period of waitForReady()'s poll and the
\* time after which verifyAppReady() gives up
TIMEOUT_CACHED_SECS == 60

TIMEOUT_FRESH_SECS == 300

POLL_MS == 500

PING_TIMEOUT_MS == 2000

TimeoutOptions ==
    IF timed
    THEN {NoTimeoutOption} \cup {[given |-> TRUE, secs |-> n] : n \in 0..MaxExplicitSecs}
    ELSE {NoTimeoutOption}

\* options.timeout_secs ?? (hasCachedBuild ? 60 : 300)
TimeoutSecs_AlwaysShort(opt, cached) ==
    IF opt.given THEN opt.secs ELSE TIMEOUT_CACHED_SECS

TimeoutSecs(opt, cached) ==
    IF opt.given THEN opt.secs
    ELSE IF cached THEN TIMEOUT_CACHED_SECS ELSE TIMEOUT_FRESH_SECS

\* whether `Date.now() - startTime < timeoutMs` fails; when time is abstract
\* both outcomes are possible
LoopExits(elapsed, secs) ==
    IF timed THEN {~(elapsed < secs * 1000)} ELSE BOOLEAN

\* the clock after dt more milliseconds
Later(elapsed, dt) == IF timed THEN elapsed + dt ELSE elapsed

\* spawn(...), status = 'starting', outputBuffer = [], the handlers, and then
\* either the first pass of waitForReady() or the return without waiting
SpawnAndWait(l, sock, det, secs, bundler) ==
    \E timedOut \in LoopExits(0, secs) :
    LET c == spawned + 1
        pass == WaitForReadyPass(c, sock, det, timedOut)
    IN  /\ spawned' = c
        /\ cstate' = [cstate EXCEPT ![c] = "alive"]
        /\ process' = c
        /\ outputBuffer' = <<>>
        /\ snap' = Reassigned(snap)
        /\ lchild' = [lchild EXCEPT ![l] = c]
        /\ lelapsed' = [lelapsed EXCEPT ![l] = 0]
        /\ llogs' = [llogs EXCEPT ![l] =
                        IF lwait[l] /\ pass.res # "none"
                        THEN GetRecentLogs(<<>>) ELSE <<>>]
        /\ IF lwait[l]
           THEN /\ status' = "starting"
                /\ detectedPipePath' = pass.detected
                /\ lpc' = [lpc EXCEPT ![l] = pass.pc]
                /\ lres' = [lres EXCEPT ![l] = pass.res]
           ELSE /\ status' = "running"
                /\ detectedPipePath' = det
                /\ lpc' = [lpc EXCEPT ![l] = "returned"]
                /\ lres' = [lres EXCEPT ![l] = "launched_nowait"]
        /\ lport' = [lport EXCEPT ![l] =
                        [Allocated(bundler) EXCEPT
                            !.port = IF lpc'[l] = "returned" THEN vitePort' ELSE 0]]
        /\ UNCHANGED <<csig, cstopl, emitted, lineBudget, errBudget, lateBudget>>

\* launch(options) up to `await this.checkExternalAppRunning()`
LaunchCall_NoHandleCheck(l) ==
    /\ calls < MaxCalls
    /\ calls' = calls + 1
    /\ lpc[l] = "idle"
    /\ \E w \in BOOLEAN : lwait' = [lwait EXCEPT ![l] = w]
    /\ \E o \in TimeoutOptions : lopt' = [lopt EXCEPT ![l] = o]
    /\ IF ~appConfig
       THEN /\ lpc' = [lpc EXCEPT ![l] = "returned"]
            /\ lres' = [lres EXCEPT ![l] = "threw_no_app"]
       ELSE /\ lpc' = [lpc EXCEPT ![l] = IF SocketSeen THEN "extping" ELSE "extnone"]
            /\ lres' = lres
    /\ UNCHANGED <<lport, vitePort, lchild, ltimeout, lelapsed, llogs, cfgVars, mgrVars, bufVars, childVars,
                   chanVars, stopVars, cmdVars, logVars, auxVars, hasBuildCache>>

\* a launch() that goes on without a detected app
LaunchCall_NoDetectionCheck(l) ==
    /\ calls < MaxCalls
    /\ calls' = calls + 1
    /\ lpc[l] = "idle"
    /\ \E w \in BOOLEAN : lwait' = [lwait EXCEPT ![l] = w]
    /\ \E o \in TimeoutOptions : lopt' = [lopt EXCEPT ![l] = o]
    /\ IF process # 0
       THEN /\ lpc' = [lpc EXCEPT ![l] = "returned"]
            /\ lres' = [lres EXCEPT ![l] = "already_running"]
            /\ lport' = [lport EXCEPT ![l] =
                            [NoPort EXCEPT !.port = vitePort, !.applied = TRUE]]
       ELSE /\ lpc' = [lpc EXCEPT ![l] = IF SocketSeen THEN "extping" ELSE "extnone"]
            /\ lres' = lres
            /\ lport' = lport
    /\ UNCHANGED <<vitePort, lchild, ltimeout, lelapsed, llogs, cfgVars, mgrVars, bufVars, childVars,
                   chanVars, stopVars, cmdVars, logVars, auxVars, hasBuildCache>>

LaunchCall(l) ==
    /\ calls < MaxCalls
    /\ calls' = calls + 1
    /\ lpc[l] = "idle"
    /\ \E w \in BOOLEAN : lwait' = [lwait EXCEPT ![l] = w]
    /\ \E o \in TimeoutOptions : lopt' = [lopt EXCEPT ![l] = o]
    /\ IF ~appConfig
       THEN /\ lpc' = [lpc EXCEPT ![l] = "returned"]
            /\ lres' = [lres EXCEPT ![l] = "threw_no_app"]
            /\ lport' = lport
       ELSE IF process # 0
       THEN /\ lpc' = [lpc EXCEPT ![l] = "returned"]
            /\ lres' = [lres EXCEPT ![l] = "already_running"]
            /\ lport' = [lport EXCEPT ![l] =
                            [NoPort EXCEPT !.port = vitePort, !.applied = TRUE]]
       ELSE /\ lpc' = [lpc EXCEPT ![l] = IF SocketSeen THEN "extping" ELSE "extnone"]
            /\ lres' = lres
            /\ lport' = lport
    /\ UNCHANGED <<vitePort, lchild, ltimeout, lelapsed, llogs, cfgVars, mgrVars, bufVars, childVars,
                   chanVars, stopVars, cmdVars, logVars, auxVars, hasBuildCache>>

\* checkExternalAppRunning() has resolved; launch() runs on to its next await:
\* the throw, or the choice of timeoutSecs, the stale-socket cleanup and the
\* port allocation, and for a command without a recognized bundler the spawn
LaunchExtChecked(l) ==
    /\ lpc[l] \in {"extping", "extnone"}
    /\ ponged' = ponged
    /\ \E ok \in BOOLEAN :
          /\ ok => (lpc[l] = "extping" /\ CanPong)
          /\ IF ok
             THEN /\ lpc' = [lpc EXCEPT ![l] = "returned"]
                  /\ lres' = [lres EXCEPT ![l] = "threw_external"]
                  /\ UNCHANGED <<lport, vitePort, lchild, ltimeout, lelapsed, llogs,
                                 mgrVars, bufVars, childVars, sockFile>>
             ELSE /\ ltimeout' = [ltimeout EXCEPT ![l] =
                                     TimeoutSecs(lopt[l], hasBuildCache)]
                  /\ \E failed \in UnlinkFails(sockFile) :
                      IF failed
                      THEN /\ lpc' = [lpc EXCEPT ![l] = "returned"]
                           /\ lres' = [lres EXCEPT ![l] = "threw_unlink"]
                           /\ detectedPipePath' = FALSE
                           /\ UNCHANGED <<lport, vitePort, lchild, lelapsed, llogs,
                                          process, status, bufVars, childVars, sockFile>>
                      ELSE /\ sockFile' = IF platform = "unix" THEN FALSE ELSE sockFile
                           /\ LET bundler == IF conf.command = "" THEN "none"
                                              ELSE DetectBundlerType(conf)
                              IN IF bundler \in {"vite", "webpack"}
                                 THEN /\ lpc' = [lpc EXCEPT ![l] = "findport"]
                                      /\ detectedPipePath' = FALSE
                                      /\ UNCHANGED <<lport, vitePort, lres, lchild,
                                                     lelapsed, llogs, process, status,
                                                     bufVars, childVars>>
                                 ELSE /\ vitePort' = StaticPort(conf)
                                      /\ SpawnAndWait(l, sockFile', FALSE, ltimeout'[l],
                                                      bundler)
    /\ UNCHANGED <<lwait, lopt, listener, extApp, cfgVars, stopVars, cmdVars, logVars, auxVars,
                   hasBuildCache, calls>>

\* findAvailablePort() has resolved: the spawn
LaunchPortFound(l) ==
    /\ lpc[l] = "findport"
    /\ vitePort' \in FreePorts
    /\ SpawnAndWait(l, SocketSeen, detectedPipePath, ltimeout[l], DetectBundlerType(conf))
    /\ UNCHANGED <<lwait, lopt, ltimeout, cfgVars, chanVars, stopVars, cmdVars, logVars, auxVars,
                   hasBuildCache, calls>>

\* sleep(500) of waitForReady() has resolved: the next pass of its loop
WaitPass(l) ==
    /\ lpc[l] = "sleeping"
    /\ lelapsed' = [lelapsed EXCEPT ![l] = Later(@, POLL_MS)]
    /\ \E timedOut \in LoopExits(lelapsed'[l], ltimeout[l]) :
          LET pass == WaitForReadyPass(process, SocketSeen, detectedPipePath,
                                       timedOut)
          IN  /\ lpc' = [lpc EXCEPT ![l] = pass.pc]
              /\ lres' = [lres EXCEPT ![l] = pass.res]
              /\ detectedPipePath' = pass.detected
              /\ llogs' = [llogs EXCEPT ![l] =
                              IF pass.res # "none"
                              THEN GetRecentLogs(outputBuffer) ELSE @]
              /\ lport' = [lport EXCEPT ![l].port =
                              IF pass.pc = "returned" THEN vitePort ELSE @]
    /\ UNCHANGED <<vitePort, lchild, lwait, lopt, ltimeout, process, status, cfgVars, bufVars,
                   childVars, chanVars, stopVars, cmdVars, logVars, auxVars, hasBuildCache, calls>>

\* the connection probe of isSocketReadyAsync() has resolved (named pipes)
ProbeReturns(l) ==
    /\ lpc[l] = "probing"
    /\ \E ok \in BOOLEAN :
          /\ ok => CanPong
          /\ lpc' = [lpc EXCEPT ![l] = IF ok THEN "pinging" ELSE "sleeping"]
    /\ UNCHANGED <<lport, vitePort, lres, lchild, lwait, waitVars, cfgVars, mgrVars, bufVars,
                   childVars, chanVars, stopVars, cmdVars, logVars, auxVars, hasBuildCache, calls>>

\* verifyAppReady() of waitForReady() has resolved (on a failure possibly
\* after its own 2 s); on a pong waitForReady() returns and launch() sets
\* status = 'running' and returns its result
PingReturns(l) ==
    /\ lpc[l] = "pinging"
    /\ \E ok \in BOOLEAN :
          /\ ok => CanPong
          /\ IF ok
             THEN /\ status' = "running"
                  /\ lpc' = [lpc EXCEPT ![l] = "returned"]
                  /\ lres' = [lres EXCEPT ![l] =
                        IF HasErrors(outputBuffer) THEN "build_error"
                        ELSE "launched"]
                  /\ lelapsed' = lelapsed
                  /\ lport' = [lport EXCEPT ![l].port = vitePort]
                  /\ ponged' = IF listener \in Children
                               THEN ponged \cup {listener} ELSE ponged
             ELSE /\ status' = status
                  /\ lpc' = [lpc EXCEPT ![l] = "sleeping"]
                  /\ lres' = lres
                  /\ \E dt \in {0, PING_TIMEOUT_MS} :
                        lelapsed' = [lelapsed EXCEPT ![l] = Later(@, dt)]
                  /\ lport' = lport
                  /\ ponged' = ponged
    /\ UNCHANGED <<vitePort, lchild, lwait, lopt, ltimeout, llogs, process, detectedPipePath,
                   cfgVars, bufVars, childVars, sockFile, listener, extApp, stopVars, cmdVars, logVars, auxVars,
                   hasBuildCache, calls>>

\* the caller has its result and may call again
LaunchAgain(l) ==
    /\ lpc[l] = "returned"
    /\ lpc' = [lpc EXCEPT ![l] = "idle"]
    /\ lres' = [lres EXCEPT ![l] = "none"]
    /\ lchild' = [lchild EXCEPT ![l] = 0]
    /\ lwait' = [lwait EXCEPT ![l] = TRUE]
    /\ lopt' = [lopt EXCEPT ![l] = NoTimeoutOption]
    /\ ltimeout' = [ltimeout EXCEPT ![l] = 0]
    /\ lelapsed' = [lelapsed EXCEPT ![l] = 0]
    /\ llogs' = [llogs EXCEPT ![l] = <<>>]
    /\ lport' = [lport EXCEPT ![l] = NoPort]
    /\ ponged' = IF lchild[l] # process /\ (\A k \in Callers \ {l} : lchild[k] # lchild[l])
                 THEN ponged \ {lchild[l]} ELSE ponged
    /\ UNCHANGED <<vitePort, cfgVars, mgrVars, bufVars, childVars, sockFile, listener, extApp,
                   stopVars,
                   cmdVars, logVars, auxVars, hasBuildCache, calls>>

(***************************************************************************)
(* stop().                                                                 *)
(***************************************************************************)
\* a stop() that runs the orphan cleanup whatever it finds
StopCall_AlwaysCleansUp(s) ==
    /\ calls < MaxCalls
    /\ ponged' = ponged
    /\ calls' = calls + 1
    /\ spc[s] = "idle"
    /\ \E failed \in UnlinkFails(sockFile) :
          sockFile' = IF platform = "unix" /\ ~failed THEN FALSE ELSE sockFile
    /\ IF process = 0
       THEN /\ spc' = [spc EXCEPT ![s] = "returned"]
            /\ sres' = [sres EXCEPT ![s] = "App was not running"]
            /\ sacts' = [sacts EXCEPT ![s] =
                           IF platform = "unix" THEN {"unlink", "orphan-kill"}
                           ELSE {"orphan-kill"}]
            /\ UNCHANGED <<sproc, stimer, csig, cstopl, extApp>>
       ELSE /\ spc' = [spc EXCEPT ![s] = "waiting"]
            /\ sproc' = [sproc EXCEPT ![s] = process]
            /\ stimer' = [stimer EXCEPT ![s] = TRUE]
            /\ cstopl' = [cstopl EXCEPT ![process] = TRUE]
            /\ sres' = sres
            /\ IF platform = "unix"
               THEN /\ csig' = [csig EXCEPT ![process] = @ \cup {"SIGTERM"}]
                    /\ sacts' = [sacts EXCEPT ![s] = {"unlink", "SIGTERM"}]
                    /\ extApp' = extApp
               ELSE /\ csig' = [csig EXCEPT ![process] =
                                   @ \cup {"taskkill", "SIGTERM"}]
                    /\ sacts' = [sacts EXCEPT ![s] =
                                   {"orphan-kill", "taskkill", "SIGTERM"}]
                    /\ extApp' = FALSE
    /\ UNCHANGED <<listener, spawned, cstate, cfgVars, mgrVars, bufVars,
                   launchVars, waitVars, cmdVars, logVars, auxVars, hasBuildCache>>

\* stop() up to the promise it returns
StopCall(s) ==
    /\ calls < MaxCalls
    /\ ponged' = ponged
    /\ calls' = calls + 1
    /\ spc[s] = "idle"
    /\ \E failed \in UnlinkFails(sockFile) :
          sockFile' = IF platform = "unix" /\ ~failed THEN FALSE ELSE sockFile
    /\ IF process = 0
       THEN /\ spc' = [spc EXCEPT ![s] = "returned"]
            /\ sres' = [sres EXCEPT ![s] = "App was not running"]
            /\ sacts' = [sacts EXCEPT ![s] =
                           IF platform = "unix" THEN {"unlink"} ELSE {}]
            /\ UNCHANGED <<sproc, stimer, csig, cstopl, extApp>>
       ELSE /\ spc' = [spc EXCEPT ![s] = "waiting"]
            /\ sproc' = [sproc EXCEPT ![s] = process]
            /\ stimer' = [stimer EXCEPT ![s] = TRUE]
            /\ cstopl' = [cstopl EXCEPT ![process] = TRUE]
            /\ sres' = sres
            /\ IF platform = "unix"
               THEN /\ csig' = [csig EXCEPT ![process] = @ \cup {"SIGTERM"}]
                    /\ sacts' = [sacts EXCEPT ![s] = {"unlink", "SIGTERM"}]
                    /\ extApp' = extApp
               ELSE /\ csig' = [csig EXCEPT ![process] =
                                   @ \cup {"taskkill", "SIGTERM"}]
                    /\ sacts' = [sacts EXCEPT ![s] =
                                   {"orphan-kill", "taskkill", "SIGTERM"}]
                    /\ extApp' = FALSE
    /\ UNCHANGED <<listener, spawned, cstate, cfgVars, mgrVars, bufVars,
                   launchVars, waitVars, cmdVars, logVars, auxVars, hasBuildCache>>

\* the 5 s timer of stop()
StopTimer_NoHandleTest(s) ==
    /\ stimer[s]
    /\ ponged' = ponged
    /\ sproc[s] # 0
    /\ stimer' = [stimer EXCEPT ![s] = FALSE]
    /\ csig' = [csig EXCEPT ![sproc[s]] = @ \cup {"SIGKILL"}]
    /\ extApp' = FALSE
    /\ process' = 0
    /\ status' = "not_running"
    /\ detectedPipePath' = FALSE
    /\ IF spc[s] = "waiting"
       THEN /\ spc' = [spc EXCEPT ![s] = "returned"]
            /\ sres' = [sres EXCEPT ![s] = "App force stopped"]
       ELSE UNCHANGED <<spc, sres>>
    /\ sacts' = [sacts EXCEPT ![s] = @ \cup {"SIGKILL", "orphan-kill"}]
    /\ UNCHANGED <<sproc, sockFile, listener, spawned, cstate, cstopl, cfgVars,
                   bufVars, launchVars, waitVars, cmdVars, logVars, auxVars, hasBuildCache, calls>>

StopTimer(s) ==
    /\ stimer[s]
    /\ ponged' = ponged
    /\ stimer' = [stimer EXCEPT ![s] = FALSE]
    /\ IF process # 0 /\ process = sproc[s]
       THEN /\ csig' = [csig EXCEPT ![process] = @ \cup {"SIGKILL"}]
            /\ extApp' = FALSE
            /\ process' = 0
            /\ status' = "not_running"
            /\ detectedPipePath' = FALSE
            /\ IF spc[s] = "waiting"
               THEN /\ spc' = [spc EXCEPT ![s] = "returned"]
                    /\ sres' = [sres EXCEPT ![s] = "App force stopped"]
               ELSE UNCHANGED <<spc, sres>>
            /\ sacts' = [sacts EXCEPT ![s] = @ \cup {"SIGKILL", "orphan-kill"}]
       ELSE UNCHANGED <<csig, extApp, mgrVars, spc, sres, sacts>>
    /\ UNCHANGED <<sproc, sockFile, listener, spawned, cstate, cstopl, cfgVars,
                   bufVars, launchVars, waitVars, cmdVars, logVars, auxVars, hasBuildCache, calls>>

\* the caller has its result and may call again; the timer of a stop() that
\* has resolved can no longer act (its child is never this.process again)
StopAgain(s) ==
    /\ spc[s] = "returned"
    /\ spc' = [spc EXCEPT ![s] = "idle"]
    /\ sres' = [sres EXCEPT ![s] = "none"]
    /\ sproc' = [sproc EXCEPT ![s] = 0]
    /\ stimer' = [stimer EXCEPT ![s] = FALSE]
    /\ sacts' = [sacts EXCEPT ![s] = {}]
    /\ UNCHANGED <<cfgVars, mgrVars, bufVars, childVars, chanVars, launchVars, waitVars,
                   cmdVars, logVars, auxVars, hasBuildCache, calls>>

SupNext ==
    \/ \E c \in Children : ChildListens(c)
    \/ \E c \in Children : ChildExits(c)
    \/ \E c \in Children : ExitEvent(c)
    \/ GetStatus
    \/ \E l \in Callers : LaunchCall(l)
    \/ \E l \in Callers : LaunchExtChecked(l)
    \/ \E l \in Callers : LaunchPortFound(l)
    \/ \E l \in Callers : WaitPass(l)
    \/ \E l \in Callers : PingReturns(l)
    \/ \E l \in Callers : LaunchAgain(l)
    \/ \E s \in Stoppers : StopCall(s)
    \/ \E s \in Stoppers : StopTimer(s)
    \/ \E s \in Stoppers : StopAgain(s)

\* the supervisor on a socket-file platform
Spec == SupInit /\ [][SupNext]_vars

\* the supervisor on a named-pipe platform
Win32Next ==
    \/ SupNext
    \/ \E l \in Callers : ProbeReturns(l)

SpecWin32 == Win32Init /\ [][Win32Next]_vars

(***************************************************************************)
(* The output buffer on its own: a supervisor whose launch() (without      *)
(* wait_for_ready, no port allocation) has just returned, and the output   *)
(* and exit events of its child.                                           *)
(***************************************************************************)
BufInit ==
    /\ platform = "unix"
    /\ appConfig = TRUE
    /\ timed = FALSE
    /\ conf \in SupConfigs
    /\ hasBuildCache = FALSE
    /\ process = 1
    /\ status = "running"
    /\ detectedPipePath = FALSE
    /\ outputBuffer = <<>>
    /\ emitted = 0
    /\ lineBudget = MaxLines
    /\ errBudget = MaxErrLines
    /\ lateBudget = MaxLateLines
    /\ snap = NoSnap
    /\ spawned = 1
    /\ cstate = [c \in Children |-> IF c = 1 THEN "alive" ELSE "none"]
    /\ csig = [c \in Children |-> {}]
    /\ cstopl = [c \in Children |-> FALSE]
    /\ extApp = FALSE
    /\ sockFile = FALSE
    /\ listener = 0
    /\ ponged = {}
    /\ lpc = [l \in Callers |-> "idle"]
    /\ lres = [l \in Callers |-> "none"]
    /\ lchild = [l \in Callers |-> 0]
    /\ lwait = [l \in Callers |-> TRUE]
    /\ lport = [l \in Callers |-> NoPort]
    /\ vitePort \in FreePorts
    /\ lopt = [l \in Callers |-> NoTimeoutOption]
    /\ ltimeout = [l \in Callers |-> 0]
    /\ lelapsed = [l \in Callers |-> 0]
    /\ llogs = [l \in Callers |-> <<>>]
    /\ spc = [s \in Stoppers |-> "idle"]
    /\ sproc = [s \in Stoppers |-> 0]
    /\ sres = [s \in Stoppers |-> "none"]
    /\ stimer = [s \in Stoppers |-> FALSE]
    /\ sacts = [s \in Stoppers |-> {}]
    /\ calls = 1
    /\ LogsIdle
    /\ AuxIdle
    /\ CmdInit

BufNext ==
    \/ StdoutData(1)
    \/ StderrData(1)
    \/ ChildExits(1)
    \/ ExitEvent(1)

SpecBuf == BufInit /\ [][BufNext]_vars

SpecCmd == SupIdle /\ [][CmdNext]_vars

\* one client and the click and fill tools that call it
SpecTool == SupIdle /\ [][ToolNext]_vars

\* the requests of one client and the ids they carry
SpecIds == SupIdle /\ [][IdsNext]_vars

(***************************************************************************)
(* The readiness wait on its own: one caller of launch() on a socket-file  *)
(* platform, with the clock of waitForReady() tracked.                     *)
(***************************************************************************)
\* the build of child c has produced the debug binary
ChildBuilds(c) ==
    /\ cstate[c] = "alive"
    /\ ~hasBuildCache
    /\ hasBuildCache' = TRUE
    /\ UNCHANGED <<cfgVars, mgrVars, bufVars, childVars, chanVars, launchVars,
                   waitVars, stopVars, cmdVars, logVars, auxVars, calls>>

WaitInit ==
    /\ MgrInit("unix", 0, TRUE, SupConfigs)
    /\ appConfig
    /\ ~sockFile

WaitNext ==
    \/ LaunchCall("launchA")
    \/ LaunchExtChecked("launchA")
    \/ LaunchPortFound("launchA")
    \/ WaitPass("launchA")
    \/ PingReturns("launchA")
    \/ LaunchAgain("launchA")
    \/ \E c \in Children : ChildBuilds(c)
    \/ \E c \in Children : ChildListens(c)
    \/ \E c \in Children : ChildExits(c)
    \/ \E c \in Children : ExitEvent(c)

SpecWait == WaitInit /\ [][WaitNext]_vars

(***************************************************************************)
(* A launch that fails: one caller of launch() on a socket-file platform   *)
(* is waiting for its child, which has written some lines already; the     *)
(* children write on, exit, and may write after their exit event.          *)
(***************************************************************************)
\* the first k lines child c wrote to its stdout
FirstLines(c, k) ==
    [i \in 1..k |-> [src |-> "stdout", text |-> "info", n |-> i, from |-> c]]

DiagInit ==
    /\ platform = "unix"
    /\ appConfig = TRUE
    /\ timed = FALSE
    /\ conf \in SupConfigs
    /\ hasBuildCache = FALSE
    /\ process = 1
    /\ status = "starting"
    /\ detectedPipePath = FALSE
    /\ emitted \in {0} \cup (RECENT_LINES - 1)..MaxDiagLines
    /\ outputBuffer = FirstLines(1, emitted)
    /\ lineBudget = MaxLateLines
    /\ errBudget = MaxErrLines
    /\ lateBudget = MaxLateLines
    /\ snap = NoSnap
    /\ spawned = 1
    /\ cstate = [c \in Children |-> IF c = 1 THEN "alive" ELSE "none"]
    /\ csig = [c \in Children |-> {}]
    /\ cstopl = [c \in Children |-> FALSE]
    /\ extApp = FALSE
    /\ sockFile = FALSE
    /\ listener = 0
    /\ ponged = {}
    /\ lpc = [l \in Callers |-> IF l = "launchA" THEN "sleeping" ELSE "idle"]
    /\ lres = [l \in Callers |-> "none"]
    /\ lchild = [l \in Callers |-> IF l = "launchA" THEN 1 ELSE 0]
    /\ lwait = [l \in Callers |-> TRUE]
    /\ lport = [l \in Callers |-> IF l = "launchA" THEN Allocated("vite") ELSE NoPort]
    /\ vitePort \in FreePorts
    /\ lopt = [l \in Callers |-> NoTimeoutOption]
    /\ ltimeout = [l \in Callers |->
                     IF l = "launchA" THEN TimeoutSecs(NoTimeoutOption, FALSE) ELSE 0]
    /\ lelapsed = [l \in Callers |-> 0]
    /\ llogs = [l \in Callers |-> <<>>]
    /\ spc = [s \in Stoppers |-> "idle"]
    /\ sproc = [s \in Stoppers |-> 0]
    /\ sres = [s \in Stoppers |-> "none"]
    /\ stimer = [s \in Stoppers |-> FALSE]
    /\ sacts = [s \in Stoppers |-> {}]
    /\ calls = MaxCalls - 1
    /\ LogsIdle
    /\ AuxIdle
    /\ CmdInit

DiagNext ==
    \/ LaunchCall("launchA")
    \/ LaunchExtChecked("launchA")
    \/ LaunchPortFound("launchA")
    \/ WaitPass("launchA")
    \/ PingReturns("launchA")
    \/ LaunchAgain("launchA")
    \/ \E c \in Children : StdoutData(c)
    \/ \E c \in Children : StderrData(c)
    \/ \E c \in Children : ChildListens(c)
    \/ \E c \in Children : ChildExits(c)
    \/ \E c \in Children : ExitEvent(c)

SpecDiag == DiagInit /\ [][DiagNext]_vars


(***************************************************************************)
(* Properties of the supervisor (specification Spec).                      *)
(***************************************************************************)
\* C1: at most one child spawned by the manager is alive at any time, for
\* every interleaving of launch(), stop() and exit events, two overlapping
\* launch() calls included.  (Children that were sent a signal are left out:
\* two children nobody tried to stop are alive together.)
C1_AtMostOneChildAlive ==
    Cardinality({c \in Children : cstate[c] = "alive" /\ csig[c] = {}}) <= 1

\* C2: a launch() called while the manager holds a process handle returns
\* 'already_running': it does not throw, it does not spawn, and it leaves the
\* handle and the children as they are, however often it is repeated.
C2_LaunchWhileHeldIsIdempotent ==
    [][\A l \in Callers :
          (lpc[l] = "idle" /\ lpc'[l] # "idle" /\ process # 0) =>
              /\ lpc'[l] = "returned"
              /\ lres'[l] = "already_running"
              /\ spawned' = spawned
              /\ cstate' = cstate
              /\ process' = process]_vars

\* a caller was answered 'already_running' while the other caller's launch
\* is the one that spawned, and the one child ever spawned is still held and
\* alive
C2_Witness ==
    /\ lres["launchB"] = "already_running"
    /\ lchild["launchA"] = 1
    /\ spawned = 1
    /\ process = 1
    /\ cstate[1] = "alive"

(***************************************************************************)
(* Properties of the protocol client (specification SpecCmd).              *)
(* hist[k] is how attempt k was settled.                                   *)
(***************************************************************************)
\* C3: sendCommand makes at most 3 attempts.  An attempt that succeeds ends
\* the call, which resolves with that attempt's result; an attempt before
\* the third that fails with a transient error (refused, reset, broken pipe,
\* closed without data) is followed by a back-off and another attempt; a
\* third failure rejects the call with the third attempt's error.
C3_RetryBound ==
    /\ Len(hist) <= 3
    /\ attempt <= 3
    /\ written <= 3
    /\ Len(hist) \in {attempt - 1, attempt}
    /\ \A k \in 1..Len(hist) :
          /\ hist[k].ok =>
                /\ k = Len(hist)
                /\ cpc = "resolved"
                /\ outcome = [status |-> "resolved", val |-> hist[k].val]
          /\ (~hist[k].ok /\ k < 3 /\
              hist[k].cause \in {"ECONNREFUSED", "ECONNRESET", "EPIPE", "closed"})
                => (k < attempt \/ cpc = "backoff")
          /\ (~hist[k].ok /\ k = 3) =>
                /\ cpc = "rejected"
                /\ outcome = [status |-> "rejected", val |-> hist[3].val]

\* two transient failures, then the third attempt succeeded
C3_Witness ==
    /\ cpc = "resolved"
    /\ Len(hist) = 3
    /\ hist[1].cause = "ECONNREFUSED"
    /\ hist[2].cause = "closed"
    /\ outcome.val = hist[3].val

\* C4: an attempt that fails because the channel does not exist (ENOENT) is
\* transient: before the third attempt it is followed by a back-off and
\* another attempt, the call is not rejected on it.
C4_AbsentIsRetried ==
    \A k \in 1..Len(hist) :
        (hist[k].cause = "ENOENT" /\ k < 3) => (k < attempt \/ cpc = "backoff")

\* C5: an attempt answered with a server error object whose message is not
\* the 'starting up' error is the last attempt of the call, and the call is
\* rejected with the server's message.
C5_ServerErrorNotRetried ==
    \A k \in 1..Len(hist) :
        (/\ hist[k].cause = "server"
         /\ ~Includes(ToLowerCase(hist[k].val), <<"starting", "up">>))
            => /\ k = Len(hist)
               /\ cpc = "rejected"
               /\ outcome = [status |-> "rejected", val |-> hist[k].val]

\* C6: whatever the chunk boundaries, an attempt is settled by a data event
\* only when the bytes received so far parse as a complete JSON value and the
\* bytes received before that chunk did not, and the value it is settled
\* with is the value of the complete response the peer sent.
C6_ChunkedResponse ==
    [][(/\ Len(hist') = Len(hist) + 1
        /\ Last(hist').cause \in {"response", "server"})
        => /\ JsonParse(BufferToString(
                 SubSeq(peerBytes, 1, Len(peerBytes) - Len(wire')))).ok
           /\ ~JsonParse(BufferToString(
                 SubSeq(peerBytes, 1, Len(peerBytes) - Len(wire)))).ok
           /\ Last(hist').val = JsonParse(BufferToString(peerBytes)).val]_vars

\* C7: an attempt is settled by a response only if the response's id is the
\* id of the request written on that connection.
C7_ResponseIdMatchesRequest ==
    \A k \in 1..Len(hist) :
        hist[k].cause \in {"response", "server"} => hist[k].resp = hist[k].req

\* C8: the command timeout stays armed while an attempt is pending; when it
\* fires on a pending attempt the connection is destroyed, the call is
\* rejected with the timeout error and nothing of what was received, and no
\* further attempt is made.
C8_TimeoutRejectsWithoutRetry ==
    /\ cpc = "inflight" => timer
    /\ \A k \in 1..Len(hist) :
          hist[k].cause = "timeout" =>
              /\ k = Len(hist)
              /\ attempt = k
              /\ cpc = "rejected"
              /\ outcome = [status |-> "rejected", val |-> MsgTimeout]
              /\ conn \in {"destroyed", "closed"}
              /\ ~timer

\* the timeout fired on the first attempt after part of a response had been
\* received, and the call was rejected
C8_Witness ==
    /\ cpc = "rejected"
    /\ Len(hist) = 1
    /\ hist[1].cause = "timeout"
    /\ data # <<>>
    /\ conn = "destroyed"

\* C9: once the peer has sent bytes that form no complete JSON value and
\* has closed the connection, the call is no longer pending.
C9_MalformedThenCloseRejects ==
    (conn = "closed" /\ data # <<>> /\ ~JsonParse(data).ok) => cpc # "inflight"

(***************************************************************************)
(* Properties of the output buffer (specification SpecBuf).                *)
(* Line number n is the n-th line received.                                *)
(***************************************************************************)
\* C10: after M data events on stdout and stderr, and before the exit event
\* of the child, the output buffer holds the min(M, 100) lines received last,
\* in the order of their arrival.
C10_BufferKeepsLast100 ==
    cstate[1] # "reaped" =>
        LET k == IF emitted < 100 THEN emitted ELSE 100 IN
        /\ Len(outputBuffer) = k
        /\ \A i \in 1..k : outputBuffer[i].n = emitted - k + i

\* more than 100 lines were received, a stderr line among them, and the
\* oldest line kept is the 100th from the end
C10_Witness ==
    /\ emitted > 100
    /\ cstate[1] = "alive"
    /\ Len(outputBuffer) = 100
    /\ outputBuffer[1].n = emitted - 99
    /\ outputBuffer[100].n = emitted
    /\ \E i \in 1..100 : outputBuffer[i].src = "stderr"


\* C11: the output buffer never holds more than 100 lines, whatever the
\* sequence of stdout, stderr and exit events, the '[exit]' line included.
C11_BufferBounded ==
    Len(outputBuffer) <= 100


C13_StopWithoutHandleIsNoOp ==
    [][\A s \in Stoppers :
          (spc[s] = "idle" /\ spc'[s] # "idle" /\ process = 0) =>
              /\ spc'[s] = "returned"
              /\ sres'[s] = "App was not running"
              /\ sacts'[s] \cap {"SIGTERM", "SIGKILL", "taskkill", "orphan-kill"} = {}
              /\ csig' = csig
              /\ spawned' = spawned
              /\ ~stimer'[s]
              /\ process' = 0
              /\ status' = status
              /\ StatusNow' = "not_running"]_vars

\* a stop() without a handle has resolved after an earlier launch() and
\* stop(); nothing was signalled by it
C13_Witness ==
    /\ sres["stopA"] = "App was not running"
    /\ sacts["stopA"] = {"unlink"}
    /\ process = 0
    /\ spawned = 1
    /\ cstate[1] = "reaped"


C15_StopAlwaysCleansUp ==
    \A s \in Stoppers :
        (spc[s] = "returned" /\ sres[s] \in {"App stopped", "App force stopped"})
            => {"unlink", "orphan-kill"} \subseteq sacts[s]


(***************************************************************************)
(* The get_logs tool on its own: the supervisor holds a launched child     *)
(* whose output is already in the buffer, and get_logs is called again and *)
(* again.                                                                  *)
(***************************************************************************)
\* the kinds of text parseBackendLogs tells apart
LogLineKinds == {"info", "rust-error", "vite-error", "warning", "error"}

RECURSIVE SeqsUpTo(_, _)
SeqsUpTo(S, n) ==
    IF n = 0 THEN {<<>>}
    ELSE LET shorter == SeqsUpTo(S, n - 1)
         IN  shorter \cup {Append(s, x) : s \in shorter, x \in S}

LogBuffers ==
    SeqsUpTo({[src |-> "stderr", text |-> k, n |-> 0] : k \in LogLineKinds},
             MaxLogLines)

LogsInit ==
    /\ platform = "unix"
    /\ appConfig = TRUE
    /\ timed = FALSE
    /\ conf \in SupConfigs
    /\ hasBuildCache = FALSE
    /\ process = 1
    /\ status = "running"
    /\ detectedPipePath = FALSE
    /\ outputBuffer \in LogBuffers
    /\ emitted = 0
    /\ lineBudget = 0
    /\ errBudget = 0
    /\ lateBudget = 0
    /\ snap = NoSnap
    /\ spawned = 1
    /\ cstate = [c \in Children |-> IF c = 1 THEN "alive" ELSE "none"]
    /\ csig = [c \in Children |-> {}]
    /\ cstopl = [c \in Children |-> FALSE]
    /\ extApp = FALSE
    /\ sockFile = TRUE
    /\ listener = 1
    /\ ponged = {}
    /\ lpc = [l \in Callers |-> "idle"]
    /\ lres = [l \in Callers |-> "none"]
    /\ lchild = [l \in Callers |-> 0]
    /\ lwait = [l \in Callers |-> TRUE]
    /\ lport = [l \in Callers |-> NoPort]
    /\ vitePort \in FreePorts
    /\ lopt = [l \in Callers |-> NoTimeoutOption]
    /\ ltimeout = [l \in Callers |-> 0]
    /\ lelapsed = [l \in Callers |-> 0]
    /\ llogs = [l \in Callers |-> <<>>]
    /\ spc = [s \in Stoppers |-> "idle"]
    /\ sproc = [s \in Stoppers |-> 0]
    /\ sres = [s \in Stoppers |-> "none"]
    /\ stimer = [s \in Stoppers |-> FALSE]
    /\ sacts = [s \in Stoppers |-> {}]
    /\ calls = 1
    /\ LogsIdle
    /\ AuxIdle
    /\ CmdInit

\* the caller of get_logs has its answer and may call again
GetLogsAgain ==
    /\ gpc = "returned"
    /\ gpc' = "idle"
    /\ gargs' = NoArgs
    /\ glocal' = <<>>
    /\ gremote' = FrontendNull
    /\ gout' = NoResult
    /\ UNCHANGED <<cfgVars, mgrVars, bufVars, childVars, chanVars, launchVars,
                   waitVars, stopVars, cmdVars, auxVars, hasBuildCache, calls>>

LogsNext ==
    \/ GetLogsCall
    \/ FetchResolves
    \/ FetchFails
    \/ GetLogsAgain

SpecLogs == LogsInit /\ [][LogsNext]_vars


(***************************************************************************)
(* C16: before truncation get_logs keeps an entry iff (no category token   *)
(* was given or the entry matches at least one of them, 'build' and        *)
(* 'runtime' matching every category with that prefix) and (no level token *)
(* was given or the entry's level is one of them); an empty filter keeps   *)
(* every entry and {"error"} keeps exactly the entries of level error.     *)
(***************************************************************************)
C16_FilterKeepsMatching ==
    gpc = "returned" =>
        LET merged == glocal \o gremote.consoleLogs \o gremote.buildLogs
                          \o gremote.networkLogs
            levels == gargs.filter \cap {"error", "warning", "info"}
            cats == gargs.filter \ levels
            family(t) ==
                CASE t = "build" -> {"build-frontend", "build-backend"}
                  [] t = "runtime" -> {"runtime-frontend", "runtime-backend",
                                       "runtime-frontend-network"}
                  [] OTHER -> {t}
            kept(e) ==
                /\ cats = {} \/ \E t \in cats : e.category \in family(t)
                /\ levels = {} \/ e.level \in levels
        IN  /\ gout.filtered = SelectSeq(merged, kept)
            /\ gargs.filter = {} => gout.filtered = merged
            /\ gargs.filter = {"error"} =>
                  gout.filtered = SelectSeq(merged, LAMBDA e : e.level = "error")

\* a category token and a level token were given together, and the merged
\* entries hold one that passes and one that fails on each side
C16_Witness ==
    /\ gpc = "returned"
    /\ gargs.filter = {"build", "error"}
    /\ Len(gout.filtered) = 1
    /\ \E i \in 1..Len(glocal) :
          glocal[i].category = "build-backend" /\ glocal[i].level = "warning"
    /\ \E i \in 1..Len(glocal) :
          glocal[i].category = "runtime-backend" /\ glocal[i].level = "error"
    /\ gremote.buildLogs # <<>>


(***************************************************************************)
(* C17: for every limit N >= 0 get_logs returns the filtered entries       *)
(* sorted ascending by timestamp and cut to the N most recent: never more  *)
(* than N entries, and every omitted entry is no later than every returned *)
(* one.                                                                    *)
(***************************************************************************)
C17_TruncatedToLimit ==
    gpc = "returned" =>
        LET out == gout.entries
            all == gout.filtered
            omittedTs == {all[i].timestamp : i \in 1..Len(all)} \
                            {out[i].timestamp : i \in 1..Len(out)}
        IN  /\ Len(out) <= gargs.limit
            /\ Len(out) = IF Len(all) < gargs.limit THEN Len(all) ELSE gargs.limit
            /\ \A i, j \in 1..Len(out) : i < j => out[i].timestamp <= out[j].timestamp
            /\ \A i \in 1..Len(out) : \E j \in 1..Len(all) : out[i] = all[j]
            /\ \A t \in omittedTs : \A i \in 1..Len(out) : t <= out[i].timestamp


(***************************************************************************)
(* C18: when fetching the frontend log entries fails, get_logs still       *)
(* succeeds: it returns the locally parsed entries (those the filter       *)
(* keeps), reports the frontend build health as 'unknown', and raises no   *)
(* error.                                                                  *)
(***************************************************************************)
C18_FetchFailureIsUnknown ==
    (gpc = "returned" /\ ~gremote.ok) =>
        /\ ~gout.threw
        /\ gout.frontend = "unknown"
        /\ ~gout.hmrConnected
        /\ gout.filtered = SelectSeq(glocal, LAMBDA e : MatchesFilters(e, gargs.filter))
        /\ gargs.filter = {} => gout.filtered = glocal
        /\ gargs.limit >= Len(gout.filtered) => gout.entries = gout.filtered
        /\ gout.backend = "error" <=>
              \E i \in 1..Len(glocal) :
                  /\ glocal[i].level = "error"
                  /\ glocal[i].category \in {"build-backend", "build-frontend"}

\* the fetch failed while the buffer held a build error and a runtime error,
\* and both were returned
C18_Witness ==
    /\ gpc = "returned"
    /\ ~gremote.ok
    /\ Len(glocal) = 2
    /\ gout.entries = glocal
    /\ gout.backend = "error"
    /\ gout.errors = 2


(***************************************************************************)
(* C19: the status seen through launch results and getStatus() moves only  *)
(* NOT_RUNNING -> STARTING, STARTING -> RUNNING and STARTING/RUNNING ->    *)
(* NOT_RUNNING; it never goes from RUNNING back to STARTING while the same *)
(* child is alive.  getStatus() may be called before and after any step,   *)
(* so the steps of what it returns are the steps of the observed status.   *)
(***************************************************************************)
C19_StatusTransitions ==
    [][/\ <<StatusNow, StatusNow'>> \in
              {<<"not_running", "not_running">>, <<"not_running", "starting">>,
               <<"starting", "starting">>, <<"starting", "running">>,
               <<"running", "running">>,
               <<"starting", "not_running">>, <<"running", "not_running">>}
       /\ (/\ StatusNow = "running"
           /\ process' = process
           /\ cstate[process] = "alive"
           /\ cstate'[process] = "alive") => StatusNow' # "starting"]_vars


(***************************************************************************)
(* C20: status 'running' (and the launch result 'launched') is reported    *)
(* for a child only after a ping to the channel has succeeded for that     *)
(* child while it was alive; a child that was spawned but has not answered *)
(* a ping is never reported as running.                                    *)
(***************************************************************************)
C20_RunningOnlyAfterPing ==
    /\ StatusNow = "running" => process \in ponged
    /\ \A l \in Callers :
          lres[l] \in {"launched", "launched_nowait"} => lchild[l] \in ponged


(***************************************************************************)
(* C21: a click or fill call that provides neither a reference handle nor  *)
(* a selector is rejected locally with an error: no connection is opened   *)
(* and no request is written to the channel.                               *)
(***************************************************************************)
C21_MissingTargetRejectedLocally ==
    [][(/\ tpc = "idle"
        /\ tpc' # "idle"
        /\ ~targs'.ref.given
        /\ ~targs'.selector.given)
       => /\ tpc' = "returned"
          /\ tres' = "threw_missing_target"
          /\ cpc' = "idle"
          /\ conn' = "none"
          /\ written' = written
          /\ written' = 0]_vars

\* a fill call without a target has been rejected
C21_Witness ==
    /\ tpc = "returned"
    /\ targs.tool = "fill"
    /\ ~targs.ref.given
    /\ ~targs.selector.given
    /\ tres = "threw_missing_target"
    /\ conn = "none"

(***************************************************************************)
(* C22: click and fill require exactly one of a reference handle or a      *)
(* selector: a request is sent only when exactly one of the two is         *)
(* provided, so a call providing both is rejected locally, and a call      *)
(* providing only a reference handle (any number, 0 included) is           *)
(* forwarded.                                                              *)
(***************************************************************************)
C22_ExactlyOneTarget ==
    [][(tpc = "idle" /\ tpc' # "idle")
       => LET exactlyOne == targs'.ref.given # targs'.selector.given
          IN  /\ tpc' = "sending" <=> exactlyOne
              /\ tres' = "threw_missing_target" <=> ~exactlyOne
              /\ (targs'.ref.given /\ targs'.selector.given) => conn' = "none"
              /\ (targs'.ref.given /\ ~targs'.selector.given) => conn' = "connecting"
      ]_vars


(***************************************************************************)
(* C23: when a launch that waits for readiness fails because the timeout   *)
(* elapsed or the child exited prematurely, the failure it reports carries *)
(* the most recent ring-buffer lines captured for that launch: the last    *)
(* 20, or all of them if fewer were captured.                              *)
(***************************************************************************)
C23_FailureCarriesRecentLines ==
    [][\A l \in Callers :
          (lres[l] = "none" /\ lres'[l] \in {"build_error_timeout", "build_error_exited"})
          => LET buf == outputBuffer'
                 k == IF Len(buf) < 20 THEN Len(buf) ELSE 20
             IN  /\ Len(buf) > 0 =>
                       llogs'[l] = [i \in 1..k |-> buf[Len(buf) - k + i]]
                 /\ \A i \in 1..Len(llogs'[l]) :
                       llogs'[l][i].src \in {"stdout", "stderr"}
                          => llogs'[l][i].from = lchild'[l]]_vars


(***************************************************************************)
(* C24: failures of best-effort hygiene steps (deleting a stale channel    *)
(* artifact, killing orphan processes) are swallowed: they never make      *)
(* launch() or stop() throw or reject.                                     *)
(***************************************************************************)
C24_HygieneFailuresSwallowed ==
    /\ \A l \in Callers : lres[l] # "threw_unlink"
    /\ \A s \in Stoppers :
          sres[s] \in {"none", "App was not running", "App stopped", "App force stopped"}


(***************************************************************************)
(* C25: launch() on a supervisor that detected no target application       *)
(* rejects with a detection error on every call, without spawning a        *)
(* process, without deleting any channel artifact and without changing the *)
(* status; the detection is never attempted again.                         *)
(***************************************************************************)
C25_NoAppDetectedIsFatal ==
    [][/\ appConfig' = appConfig
       /\ \A l \in Callers :
             (~appConfig /\ lpc[l] = "idle" /\ lpc'[l] # "idle")
             => /\ lpc'[l] = "returned"
                /\ lres'[l] = "threw_no_app"
                /\ spawned' = spawned
                /\ cstate' = cstate
                /\ process' = process
                /\ sockFile' = sockFile
                /\ status' = status
                /\ StatusNow' = StatusNow]_vars

\* without a detected app two calls in a row were rejected; a socket file
\* that was there is still there
C25_Witness ==
    /\ ~appConfig
    /\ \A l \in Callers : lres[l] = "threw_no_app"
    /\ calls = 2
    /\ sockFile
    /\ spawned = 0


(***************************************************************************)
(* C26: request ids are unique within the in-flight window: any two        *)
(* requests of one client that are in flight at the same time (two         *)
(* concurrent command calls, or a readiness ping overlapping a command)    *)
(* carry different ids.                                                    *)
(***************************************************************************)
C26_InflightIdsDiffer ==
    \A r1, r2 \in Requesters :
        (r1 # r2 /\ rq[r1].pc = "inflight" /\ rq[r2].pc = "inflight")
        => rq[r1].id # rq[r2].id


(***************************************************************************)
(* getLogs() of TauriManager and a reader that keeps the array it got.     *)
(* `same` records whether that array is the very array this.outputBuffer   *)
(* names: only then does a push on one show through the other.             *)
(***************************************************************************)

\* `limit ? this.outputBuffer.slice(-limit) : [...this.outputBuffer]`: is the
\* array returned the live one?  slice and spread both allocate.
ReturnsLiveArray_WithoutLimit(limit) == ~limit.given

ReturnsLiveArray(limit) == FALSE

\* getLogs({ limit, clear })
GetLogs ==
    /\ ~snap.held
    /\ \E limit \in {[given |-> FALSE, n |-> 0]}
                      \cup {[given |-> TRUE, n |-> n] : n \in 0..MaxLimit},
          clear \in BOOLEAN :
          /\ snap' = [held |-> TRUE,
                      same |-> ReturnsLiveArray(limit) /\ ~clear,
                      mutated |-> FALSE,
                      lines |-> IF limit.given /\ limit.n # 0
                                THEN Slice(outputBuffer, 0 - limit.n)
                                ELSE outputBuffer]
          /\ outputBuffer' = IF clear THEN <<>> ELSE outputBuffer
    /\ UNCHANGED <<emitted, lineBudget, errBudget, lateBudget, cfgVars, mgrVars, childVars,
                   chanVars, launchVars, waitVars, stopVars, cmdVars, logVars, auxVars,
                   hasBuildCache, calls>>

\* the reader pushes a line of its own onto the array it was given
ReaderMutates ==
    /\ snap.held
    /\ ~snap.mutated
    /\ snap' = [snap EXCEPT !.mutated = TRUE,
                            !.lines = Append(snap.lines, [ExitLine EXCEPT !.src = "reader"])]
    /\ outputBuffer' = IF snap.same THEN snap'.lines ELSE outputBuffer
    /\ UNCHANGED <<emitted, lineBudget, errBudget, lateBudget, cfgVars, mgrVars, childVars,
                   chanVars, launchVars, waitVars, stopVars, cmdVars, logVars, auxVars,
                   hasBuildCache, calls>>

\* the reader lets go of the array
ReaderDrops ==
    /\ snap.held
    /\ snap' = NoSnap
    /\ UNCHANGED <<outputBuffer, emitted, lineBudget, errBudget, lateBudget, cfgVars,
                   mgrVars, childVars, chanVars, launchVars, waitVars, stopVars, cmdVars,
                   logVars, auxVars, hasBuildCache, calls>>

SnapNext ==
    \/ GetLogs
    \/ ReaderMutates
    \/ ReaderDrops
    \/ \E c \in Children : StdoutData(c)
    \/ \E c \in Children : StderrData(c)
    \/ \E c \in Children : ChildExits(c)
    \/ \E c \in Children : ExitEvent(c)

SpecSnap == DiagInit /\ [][SnapNext]_vars

\* C27: the array getLogs() returned is a copy: while a reader holds it, no
\* step other than the reader's own push changes it, and the reader's push
\* leaves the live output buffer as it was.
C27_ReturnedArrayIsSnapshot ==
    [][/\ (snap.held /\ snap'.held /\ snap'.mutated = snap.mutated)
             => snap'.lines = snap.lines
       /\ (snap.held /\ ~snap.mutated /\ snap'.mutated)
             => outputBuffer' = outputBuffer]_vars

\* a reader holds an array of two lines or more and has pushed onto it, and
\* the child has written a line since the array was returned
C27_Witness ==
    /\ snap.held
    /\ snap.mutated
    /\ Len(snap.lines) > 2
    /\ \A i \in 1..Len(snap.lines) : snap.lines[i].n < emitted
    /\ \E i \in 1..Len(outputBuffer) : outputBuffer[i].n = emitted


\* launch() of one caller, over every configuration of the app
PortInit ==
    /\ MgrInit("unix", 0, FALSE, TauriConfigs)
    /\ appConfig
    /\ ~sockFile

SpecPort == PortInit /\ [][WaitNext]_vars

(***************************************************************************)
(* C28: when beforeDevCommand names no recognized bundler, or there is no  *)
(* beforeDevCommand, every result launch() returns has the port of the     *)
(* existing devUrl or else 1420, portOverrideApplied = false and a         *)
(* warning, and the child was spawned without a --config override.         *)
(***************************************************************************)
C28_UnrecognizedToolNoOverride ==
    \A l \in Callers :
        (/\ conf.command = "" \/ DetectBundlerType(conf) = "unknown"
         /\ lpc[l] = "returned"
         /\ lres[l] \notin {"threw_no_app", "threw_external", "threw_unlink"})
        => /\ lport[l].port = StaticPort(conf)
           /\ ~lport[l].applied
           /\ lport[l].warning # ""
           /\ ~lport[l].override


(***************************************************************************)
(* The channel identifier: getSocketPath() of two managers that share no   *)
(* state.  A named pipe is known by the root of the app that created it.   *)
(***************************************************************************)
Roots == {"/a", "/b"}

\* calculateWindowsPipePath(): the first pipe named tauri-mcp-*, or null ("")
CalculateWindowsPipePath == IF Len(pipes) > 0 THEN pipes[1] ELSE ""

\* getSocketPath() of manager m
GetSocketPath(m) ==
    IF platform = "win32"
    THEN IF inst[m].detected # "" THEN <<"pipe", inst[m].detected>>
         ELSE IF CalculateWindowsPipePath # "" THEN <<"pipe", CalculateWindowsPipePath>>
         ELSE <<"pipe", "unknown">>
    ELSE <<"socket", inst[m].root>>

\* new TauriManager(projectRoot)
Constructed(m) ==
    /\ inst[m].root = ""
    /\ \E r \in Roots : inst' = [inst EXCEPT ![m].root = r]
    /\ UNCHANGED <<pipes, sip, toolVars, idVars, hostVars, supVarsButAux, cmdVars>>

\* the app of root r starts to listen on its pipe, or goes away
PipeChanges(r) ==
    /\ platform = "win32"
    /\ pipes' = IF \E i \in 1..Len(pipes) : pipes[i] = r
                THEN SelectSeq(pipes, LAMBDA x : x # r)
                ELSE Append(pipes, r)
    /\ UNCHANGED <<inst, sip, toolVars, idVars, hostVars, supVarsButAux, cmdVars>>

\* the app that manager m has spawned, listening on its pipe, prints the
\* full_path line, which the stderr handler pushes on m's outputBuffer
PipeAnnounced(m) ==
    /\ platform = "win32"
    /\ inst[m].root # ""
    /\ inst[m].logged = ""
    /\ \E i \in 1..Len(pipes) : pipes[i] = inst[m].root
    /\ inst' = [inst EXCEPT ![m].logged = inst[m].root]
    /\ UNCHANGED <<pipes, sip, toolVars, idVars, hostVars, supVarsButAux, cmdVars>>

\* parsePipePathFromLogs() of manager m: the announced path, or null ("")
ParsePipePathFromLogs(m) == inst[m].logged

\* isSocketReadyAsync() of manager m up to its connection attempt: the path
\* its own child has logged, or else the calculated one, is stored in
\* this.detectedPipePath and connected to
PipeDetected(m) ==
    /\ platform = "win32"
    /\ inst[m].root # ""
    /\ LET logged == ParsePipePathFromLogs(m)
           pipePath == IF logged # "" THEN logged ELSE CalculateWindowsPipePath
       IN  /\ pipePath # ""
           /\ inst' = [inst EXCEPT ![m].detected = pipePath,
                                   ![m].use = [by |-> "probe", id |-> pipePath,
                                               announced |-> logged]]
    /\ UNCHANGED <<pipes, sip, toolVars, idVars, hostVars, supVarsButAux, cmdVars>>

\* manager m is asked for its socket path, by a command (sendCommandOnce) or
\* by the ping of verifyAppReady()
SocketPathAsked(m) ==
    /\ inst[m].root # ""
    /\ inst' = [inst EXCEPT ![m].path = GetSocketPath(m),
                            ![m].use = [by |-> "command", id |-> GetSocketPath(m)[2],
                                        announced |-> ParsePipePathFromLogs(m)]]
    /\ UNCHANGED <<pipes, sip, toolVars, idVars, hostVars, supVarsButAux, cmdVars>>

ChanInit ==
    /\ \E p \in {"unix", "win32"} : MgrInit(p, 0, FALSE, SupConfigs)
    /\ appConfig
    /\ ~sockFile

ChanNext ==
    \/ \E m \in Instances : Constructed(m)
    \/ \E r \in Roots : PipeChanges(r)
    \/ \E m \in Instances : PipeAnnounced(m)
    \/ \E m \in Instances : PipeDetected(m)
    \/ \E m \in Instances : SocketPathAsked(m)

SpecChan == ChanInit /\ [][ChanNext]_vars

(***************************************************************************)
(* C29: two managers constructed for the same root path resolve the same   *)
(* channel identifier, on socket-file and on named-pipe platforms alike:   *)
(* the identifier depends on the root path only.                           *)
(***************************************************************************)
C29_SameRootSameChannel ==
    \A m, n \in Instances :
        (/\ inst[m].root = inst[n].root
         /\ inst[m].path # <<>>
         /\ inst[n].path # <<>>)
        => inst[m].path = inst[n].path


(***************************************************************************)
(* A hasher fed the bytes of hashBytesLikeRust(data) in pieces.            *)
(***************************************************************************)
MaxBytes == 9

\* `new SipHasher(); hasher.writeUsize(data.length)` for some bytes
HashStarts ==
    /\ sip.pc = "idle"
    /\ \E n \in 0..MaxBytes : \E d \in [1..n -> {47, 97}] :
          sip' = [pc |-> "writing", data |-> d, pos |-> 0,
                  h |-> Write(NewHasher, UsizeBytes(n)), out |-> <<>>]
    /\ UNCHANGED <<pipes, inst, toolVars, idVars, hostVars, supVarsButAux, cmdVars>>

\* hasher.write(...) with the next k bytes
HashWrites ==
    /\ sip.pc = "writing"
    /\ \E k \in 1..(Len(sip.data) - sip.pos) :
          sip' = [sip EXCEPT !.pos = @ + k,
                             !.h = Write(@, SubSeq(sip.data, sip.pos + 1, sip.pos + k))]
    /\ UNCHANGED <<pipes, inst, toolVars, idVars, hostVars, supVarsButAux, cmdVars>>

\* hasher.finish()
HashFinishes ==
    /\ sip.pc = "writing"
    /\ sip.pos = Len(sip.data)
    /\ sip' = [sip EXCEPT !.pc = "finished",
                          !.out = Finish(sip.h.v, sip.h.tail, sip.h.length)]
    /\ UNCHANGED <<pipes, inst, toolVars, idVars, hostVars, supVarsButAux, cmdVars>>

HashNext == HashStarts \/ HashWrites \/ HashFinishes

SpecHash == SupIdle /\ [][HashNext]_vars

(***************************************************************************)
(* C30: whatever the pieces the bytes were written in, the hasher's result *)
(* is hashBytesLikeRust(data), and that is SipHash-1-3 under the zero key  *)
(* of the 8-byte little-endian length of data followed by data.            *)
(***************************************************************************)
C30_MatchesReferenceSipHash ==
    sip.pc = "finished"
    => /\ sip.out = HashBytesLikeRust(sip.data)
       /\ sip.out = SipHash13(<<0, 0, 0, 0>>, <<0, 0, 0, 0>>,
                              UsizeBytes(Len(sip.data)) \o sip.data)


(***************************************************************************)
(* C31: on a named-pipe platform, whenever the captured output of the      *)
(* manager's child holds the line that announces the child's own pipe      *)
(* path, the readiness probe and the commands that follow connect to the   *)
(* announced path, not to one found by listing the pipe namespace.         *)
(***************************************************************************)
C31_AnnouncedPathPreferred ==
    \A m \in Instances :
        (/\ platform = "win32"
         /\ inst[m].use # <<>>
         /\ inst[m].use.announced # "")
        => inst[m].use.id = inst[m].use.announced


(***************************************************************************)
(* C32: with an instance launched by somebody else answering on the        *)
(* channel, stop() followed by launch() leaves one running instance:       *)
(* stop() terminates the external instance before the new child is         *)
(* spawned.  Hence a launch() that is called after stop() has resolved,    *)
(* and finds no socket to ping, goes on from its external-instance check   *)
(* to the spawn only when no external instance is running.                 *)
(***************************************************************************)
C32_StopThenLaunchLeavesOneInstance ==
    [][\A l \in Callers :
          (/\ lpc[l] = "extnone"
           /\ lpc'[l] \in {"findport", "sleeping", "pinging", "returned"}
           /\ \E s \in Stoppers : spc[s] = "returned" /\ "unlink" \in sacts[s])
          => ~extApp']_vars


(***************************************************************************)
(* The server process (index.ts): its shutdown(reason), the events that    *)
(* call it and its 'exit' handler.  shut.stops and shut.syncs count the    *)
(* calls of server.stop() and server.stopSync(); each kind of event is     *)
(* delivered at most once.                                                 *)
(***************************************************************************)
Triggers == {"SIGINT", "SIGTERM", "SIGHUP", "stdin closed", "stdin ended",
             "uncaught exception", "unhandled rejection"}

\* `if (isShuttingDown) return;`
ShutdownReturnsEarly_Never(sh) == FALSE

ShutdownReturnsEarly(sh) == sh.isShuttingDown

\* shutdown(reason) up to `await server.stop()`
Shutdown(sh) ==
    IF ShutdownReturnsEarly(sh) THEN sh
    ELSE [sh EXCEPT !.isShuttingDown = TRUE, !.pc = "stopping", !.stops = @ + 1]

\* process.on('exit'): the synchronous cleanup
OnExit(sh) ==
    [sh EXCEPT !.pc = "exited",
               !.syncs = IF ~sh.isShuttingDown THEN @ + 1 ELSE @]

\* a signal, the close or end of stdin, an uncaught exception or an unhandled
\* rejection is delivered: its handler calls shutdown(reason)
TriggerDelivered(t) ==
    /\ shut.pc # "exited"
    /\ t \notin shut.seen
    /\ shut' = Shutdown([shut EXCEPT !.seen = @ \cup {t}])
    /\ UNCHANGED <<bridge, pipes, inst, sip, toolVars, idVars, supVarsButAux, cmdVars>>

\* server.stop() has settled (resolved, or rejected and caught): process.exit(0),
\* which emits 'exit'
StopSettled ==
    /\ shut.pc = "stopping"
    /\ shut' = OnExit(shut)
    /\ UNCHANGED <<bridge, pipes, inst, sip, toolVars, idVars, supVarsButAux, cmdVars>>

\* server.start() has rejected: process.exit(1), which emits 'exit'
StartFailed ==
    /\ shut.pc # "exited"
    /\ shut' = OnExit(shut)
    /\ UNCHANGED <<bridge, pipes, inst, sip, toolVars, idVars, supVarsButAux, cmdVars>>

ShutNext ==
    \/ \E t \in Triggers : TriggerDelivered(t)
    \/ StopSettled
    \/ StartFailed

SpecShut == SupIdle /\ [][ShutNext]_vars

(***************************************************************************)
(* C33: whatever shutdown triggers are delivered, and in whatever order,   *)
(* server.stop() is called at most once, and the synchronous cleanup of    *)
(* the 'exit' handler runs only if no shutdown had been started.           *)
(***************************************************************************)
C33_StopOnceAndSyncOnlyWithoutShutdown ==
    /\ shut.stops <= 1
    /\ shut.syncs > 0 => ~shut.isShuttingDown /\ shut.stops = 0

\* three triggers were delivered, server.stop() settled and the process
\* exited through the 'exit' handler
C33_Witness ==
    /\ Cardinality(shut.seen) >= 3
    /\ shut.pc = "exited"
    /\ shut.stops = 1
    /\ shut.syncs = 0


(***************************************************************************)
(* initMcpBridge() in the webview.  bridge.registers counts the            *)
(* invocations of register_bridge and bridge.installs the runs of          *)
(* setupConsoleCapture() / setupNetworkCapture() since the bridge was last *)
(* uninitialized (the wrappers in place: cleanupMcpBridge() restores the   *)
(* originals).                                                             *)
(***************************************************************************)
MaxInits == 4     \* initMcpBridge() is called at most this many times

MaxReloads == 1   \* and the module is hot-replaced at most this many times

\* `if (window.__MCP_BRIDGE__?.initialized) return`
AlreadyInitialized_Never(b) == FALSE

AlreadyInitialized(b) == b.initialized

\* initMcpBridge() of caller k up to `await invoke('plugin:mcp|register_bridge')`
InitMcpBridge(k) ==
    /\ bridge.pc[k] = "idle"
    /\ bridge.calls < MaxInits
    /\ bridge' =
         IF AlreadyInitialized(bridge)
         THEN [bridge EXCEPT !.calls = @ + 1, !.pc[k] = "warned"]
         ELSE [bridge EXCEPT !.calls = @ + 1, !.pc[k] = "registering",
                             !.initialized = TRUE,
                             !.installs = @ + 1,
                             !.registers = @ + 1]
    /\ UNCHANGED <<shut, pipes, inst, sip, toolVars, idVars, supVarsButAux, cmdVars>>

\* register_bridge has settled: on a rejection initMcpBridge() throws; else,
\* in a build with import.meta.hot, the dispose handler is registered
RegisterSettled(k) ==
    /\ bridge.pc[k] = "registering"
    /\ \E ok \in BOOLEAN, hot \in BOOLEAN :
          bridge' = IF ok
                    THEN [bridge EXCEPT !.pc[k] = "initialized",
                                        !.disposer = @ \/ hot]
                    ELSE [bridge EXCEPT !.pc[k] = "threw"]
    /\ UNCHANGED <<shut, pipes, inst, sip, toolVars, idVars, supVarsButAux, cmdVars>>

\* the module is hot-replaced: the dispose handler runs cleanupMcpBridge()
\* and clears initialized; the calls of the old module have returned
HotDispose ==
    /\ bridge.disposer
    /\ bridge.reloads < MaxReloads
    /\ \A k \in Initializers : bridge.pc[k] # "registering"
    /\ bridge' = [bridge EXCEPT !.initialized = FALSE, !.installs = 0,
                                !.registers = 0, !.disposer = FALSE,
                                !.reloads = @ + 1,
                                !.pc = [k \in Initializers |-> "idle"]]
    /\ UNCHANGED <<shut, pipes, inst, sip, toolVars, idVars, supVarsButAux, cmdVars>>

\* the caller has its answer and may call again
InitAgain(k) ==
    /\ bridge.pc[k] \in {"warned", "initialized", "threw"}
    /\ bridge' = [bridge EXCEPT !.pc[k] = "idle"]
    /\ UNCHANGED <<shut, pipes, inst, sip, toolVars, idVars, supVarsButAux, cmdVars>>

BridgeNext ==
    \/ \E k \in Initializers : InitMcpBridge(k)
    \/ \E k \in Initializers : RegisterSettled(k)
    \/ \E k \in Initializers : InitAgain(k)
    \/ HotDispose

SpecBridge == SupIdle /\ [][BridgeNext]_vars

(***************************************************************************)
(* C34: however often initMcpBridge() is called while the bridge is        *)
(* initialized, also while a first call still awaits the registration,     *)
(* register_bridge has been invoked exactly once and the console, fetch    *)
(* and XHR wrappers have been installed exactly once.                      *)
(***************************************************************************)
C34_InitializedOnce ==
    bridge.initialized => bridge.registers = 1 /\ bridge.installs = 1

\* a second call has returned with the warning while the first call still
\* awaits register_bridge
C34_Witness ==
    /\ bridge.pc["entry"] = "registering"
    /\ bridge.pc["again"] = "warned"
    /\ bridge.registers = 1
    /\ bridge.installs = 1


(***************************************************************************)
(* A supervisor whose launch() (without wait_for_ready) has returned, the   *)
(* caller having taken the result; and, when not `held`, whose stop() has  *)
(* since force-stopped that child, whose exit event is yet to come.  Two   *)
(* more calls of launch() or stop() follow.  The children are silent.      *)
(***************************************************************************)
RunInit(held) ==
    /\ platform = "unix"
    /\ appConfig = TRUE
    /\ timed = FALSE
    /\ conf \in SupConfigs
    /\ hasBuildCache = FALSE
    /\ process = IF held THEN 1 ELSE 0
    /\ status = IF held THEN "running" ELSE "not_running"
    /\ detectedPipePath = FALSE
    /\ outputBuffer = <<>>
    /\ emitted = 0
    /\ lineBudget = 0
    /\ errBudget = 0
    /\ lateBudget = 0
    /\ snap = NoSnap
    /\ spawned = 1
    /\ cstate = [c \in Children |-> IF c = 1 THEN "alive" ELSE "none"]
    /\ csig = [c \in Children |->
                 IF c = 1 /\ ~held THEN {"SIGTERM", "SIGKILL"} ELSE {}]
    /\ cstopl = [c \in Children |-> c = 1 /\ ~held]
    /\ extApp = FALSE
    /\ sockFile \in (IF held THEN BOOLEAN ELSE {FALSE})
    /\ listener = IF sockFile THEN 1 ELSE 0
    /\ ponged = {}
    /\ lpc = [l \in Callers |-> "idle"]
    /\ lres = [l \in Callers |-> "none"]
    /\ lchild = [l \in Callers |-> 0]
    /\ lwait = [l \in Callers |-> TRUE]
    /\ lport = [l \in Callers |-> NoPort]
    /\ vitePort \in FreePorts
    /\ lopt = [l \in Callers |-> NoTimeoutOption]
    /\ ltimeout = [l \in Callers |-> 0]
    /\ lelapsed = [l \in Callers |-> 0]
    /\ llogs = [l \in Callers |-> <<>>]
    /\ spc = [s \in Stoppers |-> "idle"]
    /\ sproc = [s \in Stoppers |-> 0]
    /\ sres = [s \in Stoppers |-> "none"]
    /\ stimer = [s \in Stoppers |-> FALSE]
    /\ sacts = [s \in Stoppers |-> {}]
    /\ calls = MaxCalls - 2
    /\ LogsIdle
    /\ AuxIdle
    /\ CmdInit

HeldInit == RunInit(TRUE)

ForcedInit == RunInit(FALSE)

SpecHeld == HeldInit /\ [][SupNext]_vars

(***************************************************************************)
(* C35: the exit event of a child clears only that child's handle: when    *)
(* the supervisor holds another child, the event leaves the handle and the *)
(* status as they are (so the late exit event of a force-stopped child     *)
(* does not make the supervisor forget the child spawned since).           *)
(***************************************************************************)
C35_ExitClearsOnlyOwnHandle ==
    [][\A c \in Children :
          (/\ cstate[c] = "exited"
           /\ cstate'[c] = "reaped"
           /\ process \notin {0, c})
          => /\ process' = process
             /\ status' = status]_vars


(***************************************************************************)
(* C36: whenever the stored status is 'starting' or 'running' the          *)
(* supervisor holds a process handle; so a launch() whose child's exit     *)
(* event is delivered while it awaits the readiness ping does not leave    *)
(* the status 'running' with no handle held.                               *)
(***************************************************************************)
C36_StatusImpliesHandle ==
    status \in {"starting", "running"} => process # 0


(***************************************************************************)
(* The supervisor with its scheduling: a timer that is armed fires, an     *)
(* exit event that is pending is delivered, a launch() that can go on goes *)
(* on, and a child that was sent SIGKILL exits.  A child that was sent     *)
(* SIGTERM only may go on running.                                         *)
(***************************************************************************)
KilledChildExits(c) == "SIGKILL" \in csig[c] /\ ChildExits(c)

SupFairness ==
    /\ \A s \in Stoppers : WF_vars(StopTimer(s))
    /\ \A c \in Children : WF_vars(ExitEvent(c))
    /\ \A c \in Children : WF_vars(KilledChildExits(c))
    /\ \A l \in Callers : WF_vars(LaunchExtChecked(l) \/ LaunchPortFound(l))

SpecForcedLive == ForcedInit /\ [][SupNext]_vars /\ SupFairness

(***************************************************************************)
(* C37: every stop() call eventually resolves, also when the child ignores *)
(* the graceful signal.                                                    *)
(***************************************************************************)
C37_StopEventuallyResolves ==
    \A s \in Stoppers : (spc[s] = "waiting") ~> (spc[s] = "returned")


(***************************************************************************)
(* The protocol client with its scheduling, and a peer that never sends a  *)
(* complete response: it stays silent, sends bytes that do not form a JSON *)
(* value, closes or resets the connection, or refuses it.  The 30 s timer  *)
(* of an attempt fires and the sleep between two attempts ends; the peer   *)
(* and the connection are free to do nothing.                              *)
(***************************************************************************)
\* the peer decides to send bytes that never form a JSON value
PeerSendsPartial ==
    /\ conn = "open"
    /\ peerBytes = <<>>
    /\ \E w \in MalformedTexts : peerBytes' = w /\ wire' = w
    /\ UNCHANGED <<cpc, attempt, conn, reqId, written, data, timer, backoffMs,
                   hist, outcome>>
    /\ UNCHANGED supVars

CmdLiveNext ==
    \/ SendCommand
    \/ Connected
    \/ ConnectError
    \/ PeerSendsPartial
    \/ DataEvent
    \/ PeerClose
    \/ StreamError
    \/ CloseEvent
    \/ CommandTimeout
    \/ BackoffElapsed

CmdFairness == WF_vars(CommandTimeout) /\ WF_vars(BackoffElapsed)

SpecCmdLive == SupIdle /\ [][CmdLiveNext]_vars /\ CmdFairness

(***************************************************************************)
(* C38: every sendCommand call eventually settles, after at most 3         *)
(* attempts, and once settled stays as it was settled, whether the peer    *)
(* never answers, sends bytes that never form a JSON value, or closes      *)
(* after a partial response.                                               *)
(***************************************************************************)
C38_CommandEventuallySettlesOnce ==
    /\ (cpc # "idle") ~> (cpc \in {"resolved", "rejected"})
    /\ [](attempt <= 3 /\ Len(hist) <= 3)
    /\ [][outcome.status # "pending" => outcome' = outcome /\ cpc' = cpc]_vars

\* the peer sent the beginning of a response and closed the connection; the
\* call was rejected by the timer of its only attempt
C38_Witness ==
    /\ cpc = "rejected"
    /\ peerBytes \in MalformedTexts
    /\ data # <<>>
    /\ conn = "closed"
    /\ attempt = 1
    /\ outcome = [status |-> "rejected", val |-> MsgTimeout]


(***************************************************************************)
(* C39: after a launch() whose readiness wait timed out the child it       *)
(* spawned is neither killed nor forgotten: while that child is alive and  *)
(* was sent no signal, the supervisor holds its handle (so that a          *)
(* following launch() answers 'already_running' and a following stop()     *)
(* terminates it).                                                         *)
(***************************************************************************)
C39_TimedOutChildStillHeld ==
    \A l \in Callers :
        (/\ lpc[l] = "returned"
         /\ lres[l] = "build_error_timeout"
         /\ cstate[lchild[l]] = "alive"
         /\ csig[lchild[l]] = {})
        => process = lchild[l]


(***************************************************************************)
(* C40: get_logs with clear = true discards only what it returned: a       *)
(* locally captured entry that the filter or the limit kept out of the     *)
(* response is still in the output buffer for a later call.                *)
(***************************************************************************)
C40_ClearDiscardsOnlyReturned ==
    (gpc = "returned" /\ gargs.clear)
    => \A i \in 1..Len(glocal) :
          (\A j \in 1..Len(gout.entries) : gout.entries[j] # glocal[i])
          => \E k \in 1..Len(UnifiedEntries(outputBuffer)) :
                UnifiedEntries(outputBuffer)[k] = glocal[i]

====
